---- MODULE Spec2Model ----
(***************************************************************************)
(* Water-system dashboard (giak/water-system-project).                     *)
(*                                                                         *)
(* Part 1: the alert queue of useAlertSystem.ts, a PriorityQueue of alert  *)
(* objects (binary heap kept in an array) with the alertMap dedup index.   *)
(* Part 2: the orchestrator of useWaterSystem.ts (state record, modes,     *)
(* subscriptions, reset).                                                  *)
(***************************************************************************)
EXTENDS Integers, Sequences, FiniteSets, TLC

(***************************************************************************)
(* Bounds of the model.                                                    *)
(***************************************************************************)
\* queue capacity; the program uses 1000 (useAlertSystem.ts:7)
MAX_ALERTS == 3
\* the wall clock stops advancing at this many milliseconds
MaxNow == 1000

Messages == {"X", "Y"}
Priorities == {"high", "medium", "low"}

\* the wall clock advances in steps of this many milliseconds
ClockStep == 500

\* the tasks (timer callbacks, calls of the control functions and of addAlert)
\* that are run
MaxTasks == 5
\* resetSystem is called at most this often
MaxResets == 2

VARIABLES
  now,          \* Date.now(), milliseconds
  alertQueue,   \* PriorityQueue<Alert>: the heap's node array
  alertMap,     \* Map<string, Alert & {count}>
  lastAdd,      \* history: the run of consecutive adds of one key, the key evicted
                \* last, and whether the last add created that key again
  lastEvict,    \* history: the last addAlert removed an entry on overflow
  state,              \* the reactive SystemState record
  isManualMode,       \* ref isManualMode
  manualWaterLevel,   \* ref manualWaterLevel
  isAutoMode,         \* useSimulation: ref isAutoMode
  simulationInterval, \* useSimulation: TRUE while simulationInterval holds a timer id
  simulationTimers,   \* the interval timers of useSimulation that are set
  currentGlacierVolume, \* useSimulation: BehaviorSubject currentGlacierVolume
  destroyed,          \* destroy$ has emitted and completed
  resetSubs,          \* number of subscription sets created by resetSystem
  graph,              \* memory of the streams (latest values, accumulators)
  tasks,              \* number of tasks run so far
  lastCall,           \* history: the task run last
  unmounted,          \* the component's onUnmounted hooks have run
  cleanupInterval,    \* TRUE while the cache-cleanup interval timer is set
  calculationCache,   \* Map<string, {value, timestamp}>
  computedRefs,       \* the computed refs over the cache: value, dirty, deps
  lastRead,           \* history: the computed ref read last and what it gave
  changedAt,          \* history: when purifiedWater or waterDistributed changed last
  toggles,            \* history: number of toggleManualMode calls so far
  retry               \* a stream under retryWhen(retryStrategy(...)) and its subscriber

alertVars == <<now, alertQueue, alertMap, lastAdd, lastEvict>>
orchVars == <<state, isManualMode, manualWaterLevel, isAutoMode, simulationInterval,
              simulationTimers,
              currentGlacierVolume, destroyed, resetSubs, graph, tasks, lastCall, toggles>>
lifeVars == <<unmounted, cleanupInterval, retry>>
cacheVars == <<calculationCache, computedRefs, lastRead, changedAt>>
vars == <<now, alertQueue, alertMap, lastAdd, lastEvict,
          state, isManualMode, manualWaterLevel, isAutoMode, simulationInterval,
          simulationTimers,
          currentGlacierVolume, destroyed, resetSubs, graph, tasks, lastCall,
          unmounted, cleanupInterval, calculationCache, computedRefs, lastRead, changedAt,
          toggles, retry>>

NoAlert == [message |-> "", timestamp |-> 0, priority |-> "", count |-> 0]

(***************************************************************************)
(* Timestamps: format(new Date(), 'yyyy-MM-dd HH:mm:ss') keeps whole       *)
(* seconds; new Date(timestamp).getTime() gives the milliseconds of that   *)
(* second.                                                                 *)
(***************************************************************************)
FormatTimestamp(ms) == ms \div 1000
GetTime(timestamp) == timestamp * 1000

priorityOrder(p) == CASE p = "high" -> 3 [] p = "medium" -> 2 [] OTHER -> 1

\* a comparator that ranks by recency only
CompareAlerts_NoPriority(a, b) == GetTime(b.timestamp) - GetTime(a.timestamp)

\* the comparator handed to the PriorityQueue: negative when a goes first
CompareAlerts(a, b) ==
  IF priorityOrder(a.priority) # priorityOrder(b.priority)
  THEN priorityOrder(b.priority) - priorityOrder(a.priority)
  ELSE GetTime(b.timestamp) - GetTime(a.timestamp)

AlertKey(a) == a.priority \o "-" \o a.message

(***************************************************************************)
(* The binary heap behind the PriorityQueue.  Indices are 0-based as in    *)
(* the library; At(nodes, i) is nodes[i].                                  *)
(***************************************************************************)
At(nodes, i) == nodes[i + 1]
HeapSize(nodes) == Len(nodes)
Swap(nodes, i, j) ==
  [nodes EXCEPT ![i + 1] = nodes[j + 1], ![j + 1] = nodes[i + 1]]

ShouldSwap(nodes, parentIndex, childIndex) ==
  IF parentIndex < 0 \/ parentIndex >= HeapSize(nodes) THEN FALSE
  ELSE IF childIndex < 0 \/ childIndex >= HeapSize(nodes) THEN FALSE
  ELSE CompareAlerts(At(nodes, parentIndex), At(nodes, childIndex)) > 0

HasLeftChild(nodes, parentIndex) == (parentIndex * 2) + 1 < HeapSize(nodes)
HasRightChild(nodes, parentIndex) == (parentIndex * 2) + 2 < HeapSize(nodes)

CompareChildrenOf(nodes, parentIndex) ==
  LET leftChildIndex == (parentIndex * 2) + 1
      rightChildIndex == (parentIndex * 2) + 2
  IN IF ~HasLeftChild(nodes, parentIndex) /\ ~HasRightChild(nodes, parentIndex) THEN -1
     ELSE IF ~HasLeftChild(nodes, parentIndex) THEN rightChildIndex
     ELSE IF ~HasRightChild(nodes, parentIndex) THEN leftChildIndex
     ELSE IF CompareAlerts(At(nodes, leftChildIndex), At(nodes, rightChildIndex)) > 0
          THEN rightChildIndex
          ELSE leftChildIndex

RECURSIVE HeapifyUp(_, _)
HeapifyUp(nodes, childIndex) ==
  LET parentIndex == (childIndex - 1) \div 2
  IN IF ShouldSwap(nodes, parentIndex, childIndex)
     THEN HeapifyUp(Swap(nodes, parentIndex, childIndex), parentIndex)
     ELSE nodes

RECURSIVE HeapifyDown(_, _)
HeapifyDown(nodes, parentIndex) ==
  LET childIndex == CompareChildrenOf(nodes, parentIndex)
  IN IF ShouldSwap(nodes, parentIndex, childIndex)
     THEN HeapifyDown(Swap(nodes, parentIndex, childIndex), childIndex)
     ELSE nodes

CompareChildrenBefore(nodes, index, leftChildIndex, rightChildIndex) ==
  IF CompareAlerts(At(nodes, rightChildIndex), At(nodes, leftChildIndex)) <= 0
     /\ rightChildIndex < index
  THEN rightChildIndex
  ELSE leftChildIndex

RECURSIVE HeapifyDownUntil(_, _, _)
HeapifyDownUntil(nodes, index, parentIndex) ==
  LET leftChildIndex == (parentIndex * 2) + 1
      rightChildIndex == leftChildIndex + 1
  IN IF leftChildIndex < index
     THEN LET childIndex == CompareChildrenBefore(nodes, index, leftChildIndex, rightChildIndex)
              swapped == IF ShouldSwap(nodes, parentIndex, childIndex)
                         THEN Swap(nodes, parentIndex, childIndex)
                         ELSE nodes
          IN HeapifyDownUntil(swapped, index, childIndex)
     ELSE nodes

\* Heap.sort(): leaves the array in reverse priority order
RECURSIVE HeapSort(_, _)
HeapSort(nodes, i) ==
  IF i > 0
  THEN HeapSort(HeapifyDownUntil(Swap(nodes, 0, i), i, 0), i - 1)
  ELSE nodes

Reverse(s) == [k \in 1..Len(s) |-> s[Len(s) + 1 - k]]

\* PriorityQueue.enqueue = Heap.insert
enqueue(nodes, value) == HeapifyUp(Append(nodes, value), Len(nodes))

\* a dequeue that removes nothing
dequeue_Keep(nodes) == nodes

\* PriorityQueue.dequeue = Heap.extractRoot: the node array afterwards
dequeue(nodes) ==
  IF Len(nodes) = 0 THEN nodes
  ELSE IF Len(nodes) = 1 THEN <<>>
  ELSE HeapifyDown([k \in 1..(Len(nodes) - 1) |->
                      IF k = 1 THEN nodes[Len(nodes)] ELSE nodes[k]], 0)

\* PriorityQueue.size
alertQueueSize(nodes) == Len(nodes)

\* PriorityQueue.toArray = heap.clone().sort().reverse()
toArray(nodes) == Reverse(HeapSort(nodes, Len(nodes) - 1))

\* the computed `alerts`
alerts == toArray(alertQueue)

(***************************************************************************)
(* addAlert / groupSimilarAlerts                                           *)
(***************************************************************************)
MapSet(map, key, value) ==
  [k \in (DOMAIN map) \cup {key} |-> IF k = key THEN value ELSE map[k]]
MapDelete(map, key) == [k \in (DOMAIN map) \ {key} |-> map[k]]

\* the in-place update of an alert object, seen through every reference to it.
\* An object is identified by its key: alertMap holds one object per key and
\* the queue only holds objects that alertMap holds.
Mutate(nodes, obj) ==
  [k \in 1..Len(nodes) |-> IF AlertKey(nodes[k]) = AlertKey(obj) THEN obj ELSE nodes[k]]

\* a groupSimilarAlerts that refreshes the timestamp but forgets the count
groupSimilarAlerts_NoCount(map, nodes, alert) ==
  LET key == AlertKey(alert)
      fresh == [message |-> alert.message, timestamp |-> alert.timestamp,
                priority |-> alert.priority, count |-> 1]
  IN IF key \in DOMAIN map
     THEN LET existingAlert == [map[key] EXCEPT !.timestamp = alert.timestamp]
          IN [alert |-> existingAlert, map |-> MapSet(map, key, existingAlert),
              nodes |-> Mutate(nodes, existingAlert)]
     ELSE [alert |-> fresh, map |-> MapSet(map, key, fresh), nodes |-> nodes]

\* a groupSimilarAlerts that never finds the existing entry
groupSimilarAlerts_NoLookup(map, nodes, alert) ==
  LET fresh == [message |-> alert.message, timestamp |-> alert.timestamp,
                priority |-> alert.priority, count |-> 1]
  IN [alert |-> fresh, map |-> MapSet(map, AlertKey(alert), fresh), nodes |-> nodes]

\* groupSimilarAlerts on the index `map` and the queue `nodes`: the grouped
\* alert, and the index and the queue after the in-place update
groupSimilarAlerts(map, nodes, alert) ==
  LET key == AlertKey(alert)
  IN IF key \in DOMAIN map
     THEN LET existingAlert == [map[key] EXCEPT !.count = @ + 1,
                                                !.timestamp = alert.timestamp]
          IN [alert |-> existingAlert, map |-> MapSet(map, key, existingAlert),
              nodes |-> Mutate(nodes, existingAlert)]
     ELSE LET newGroupedAlert == [message |-> alert.message,
                                  timestamp |-> alert.timestamp,
                                  priority |-> alert.priority, count |-> 1]
          IN [alert |-> newGroupedAlert, map |-> MapSet(map, key, newGroupedAlert),
              nodes |-> nodes]

\* addAlert leaving the key of the removed alert in the index
addAlertAt_NoDelete(map, nodes, t, message, priority) ==
  LET newAlert == [message |-> message, timestamp |-> FormatTimestamp(t),
                   priority |-> priority]
      g == groupSimilarAlerts(map, nodes, newAlert)
      enqueued == enqueue(g.nodes, g.alert)
      overflow == g.alert.count = 1 /\ alertQueueSize(enqueued) > MAX_ALERTS
      removedAlert == IF overflow THEN At(enqueued, 0) ELSE NoAlert
  IN [grouped |-> g.alert,
      removed |-> removedAlert,
      nodes |-> IF g.alert.count = 1
                THEN IF overflow THEN dequeue(enqueued) ELSE enqueued
                ELSE g.nodes,
      map |-> g.map]

\* the body of addAlert, called at time t: the queue and the index afterwards,
\* the grouped alert and the alert removed on overflow (NoAlert if none)
addAlertAt(map, nodes, t, message, priority) ==
  LET newAlert == [message |-> message, timestamp |-> FormatTimestamp(t),
                   priority |-> priority]
      g == groupSimilarAlerts(map, nodes, newAlert)
      enqueued == enqueue(g.nodes, g.alert)
      overflow == g.alert.count = 1 /\ alertQueueSize(enqueued) > MAX_ALERTS
      removedAlert == IF overflow THEN At(enqueued, 0) ELSE NoAlert
  IN [grouped |-> g.alert,
      removed |-> removedAlert,
      nodes |-> IF g.alert.count = 1
                THEN IF overflow THEN dequeue(enqueued) ELSE enqueued
                ELSE g.nodes,
      map |-> IF overflow THEN MapDelete(g.map, AlertKey(removedAlert)) ELSE g.map]

\* addAlert(message, priority), called by the user interface
addAlert(message, priority) ==
  LET r == addAlertAt(alertMap, alertQueue, now, message, priority)
      key == priority \o "-" \o message
  IN /\ tasks < MaxTasks
     /\ tasks' = tasks + 1
     /\ alertQueue' = r.nodes
     /\ alertMap' = r.map
     /\ lastEvict' = (r.removed # NoAlert)
     /\ lastAdd' = [IF r.removed # NoAlert THEN [lastAdd EXCEPT !.key = "", !.n = 0]
                    ELSE IF lastAdd.key = key THEN [lastAdd EXCEPT !.n = @ + 1]
                    ELSE IF r.grouped.count = 1 THEN [lastAdd EXCEPT !.key = key, !.n = 1]
                    ELSE [lastAdd EXCEPT !.key = "", !.n = 0]
                      EXCEPT !.evicted = IF r.removed # NoAlert THEN AlertKey(r.removed) ELSE @,
                             !.again = (key = lastAdd.evicted /\ r.grouped.count = 1)]
     /\ UNCHANGED <<now, state, isManualMode, manualWaterLevel, isAutoMode, simulationInterval,
                    simulationTimers,
                    currentGlacierVolume, destroyed, resetSubs, graph, lastCall,
                    lifeVars, cacheVars, toggles>>

\* time passes between two calls
Tick ==
  /\ now + ClockStep <= MaxNow
  /\ now' = now + ClockStep
  /\ UNCHANGED <<alertQueue, alertMap, lastAdd, lastEvict>>
  /\ UNCHANGED <<orchVars, lifeVars, cacheVars>>

(***************************************************************************)
(* Properties of the alert queue                                           *)
(***************************************************************************)
QueueIndexes == 1..Len(alertQueue)
EntriesWithKey(key) == {k \in QueueIndexes : AlertKey(alertQueue[k]) = key}

\* C1: after n consecutive addAlert calls of one key, started on a queue
\* that did not hold the key and with no eviction in between, the queue holds
\* exactly one entry with that key and its count is n (two calls give count
\* 2); no entry ever has a count below 1.
C1_DedupCount ==
  /\ \A k \in QueueIndexes : alertQueue[k].count >= 1
  /\ lastAdd.n >= 1 =>
       /\ Cardinality(EntriesWithKey(lastAdd.key)) = 1
       /\ \A k \in EntriesWithKey(lastAdd.key) : alertQueue[k].count = lastAdd.n

\* two consecutive adds of one key have been merged into one entry
C1_Witness ==
  /\ lastAdd.n = 2
  /\ \E k \in QueueIndexes :
       AlertKey(alertQueue[k]) = lastAdd.key /\ alertQueue[k].count = 2

\* C2: no two entries of the alert queue share the same (priority, message)
\* key, whatever adds and overflow evictions came before.
C2_UniqueKeys ==
  \A i \in QueueIndexes, j \in QueueIndexes :
    i # j => AlertKey(alertQueue[i]) # AlertKey(alertQueue[j])

\* a full queue right after an overflow eviction, holding a merged entry
C2_Witness ==
  /\ lastEvict
  /\ Len(alertQueue) = MAX_ALERTS
  /\ \E k \in QueueIndexes : alertQueue[k].count >= 2

\* C3: the alerts snapshot lists every high entry before every medium entry
\* and every medium entry before every low entry, for any order of adds.
C3_SnapshotByPriority ==
  \A i \in 1..Len(alerts), j \in 1..Len(alerts) :
    i < j => priorityOrder(alerts[i].priority) >= priorityOrder(alerts[j].priority)

\* low, high and medium were added in an order in which the heap array is
\* not itself sorted, and the snapshot is high, medium, low
C3_Witness ==
  /\ Len(alerts) = 3
  /\ alerts[1].priority = "high" /\ alerts[2].priority = "medium" /\ alerts[3].priority = "low"
  /\ alertQueue[2].priority = "low"

\* C4: after every addAlert the queue holds at most MAX_ALERTS entries.
C4_Bounded == Len(alertQueue) <= MAX_ALERTS

\* an add has just overflowed the queue and one entry was removed
C4_Witness == lastEvict /\ Len(alertQueue) = MAX_ALERTS /\ lastAdd.n = 0

\* C5: the entry removed on overflow is the lowest-ranked one: no entry that
\* stays in the queue ranks behind it (lower priority, or same priority and
\* older), so a high entry is never evicted while a medium or low one stays.
C5_EvictsLowestRanked ==
  [][\A m \in Messages, p \in Priorities :
       LET r == addAlertAt(alertMap, alertQueue, now, m, p)
       IN (addAlert(m, p) /\ r.removed # NoAlert)
            => \A k \in 1..Len(r.nodes) : CompareAlerts(r.nodes[k], r.removed) <= 0]_vars

(***************************************************************************)
(* The orchestrator, useWaterSystem.ts.                                    *)
(*                                                                         *)
(* Numbers are fixed-point: a value x of the program is the integer        *)
(* x * Scale, products and quotients are rounded down.                     *)
(***************************************************************************)
Scale == 100
None == -1
NoWeather == "none"
Weathers == {"ensoleille", "nuageux", "pluvieux", "orageux"}

\* waterSystemConfig
INITIAL_WATER_LEVEL == 50
INITIAL_GLACIER_VOLUME == 1000000
INITIAL_WATER_QUALITY == 90
INITIAL_FLOOD_RISK == 10
INITIAL_PURIFIED_WATER == 0
INITIAL_POWER_GENERATED == 0
INITIAL_WATER_DISTRIBUTED == 0
INITIAL_IRRIGATION_WATER == 0
INITIAL_TREATED_WASTEWATER == 0
INITIAL_USER_CONSUMPTION == 0
INITIAL_MELT_RATE == 0
INITIAL_WATER_FLOW == 0
INITIAL_DAM_WATER_LEVEL == 70
INITIAL_DAM_WATER_VOLUME == 1000000
LOW_WATER_DISTRIBUTION == 50
HIGH_WATER_DISTRIBUTION == 500
\* useWaterDistribution / useUserWaterManagement
DAILY_RESET_VALUE == 1000
\* useDamManagement: new BehaviorSubject<number>(70), the seed of the scan
InitialWaterLevelSeed == 70

\* thresholds
CRITICAL_WATER_LEVEL == 20
LOW_WATER_LEVEL == 30
HIGH_WATER_LEVEL == 80
VERY_HIGH_WATER_LEVEL == 90
LOW_WATER_QUALITY == 60
MEDIUM_WATER_QUALITY == 70
CRITICAL_WATER_QUALITY == 50
HIGH_FLOOD_RISK == 80
HIGH_IRRIGATION_WATER == 1000
LOW_POWER_GENERATION == 100
HIGH_POWER_GENERATION == 1000
HIGH_USER_CONSUMPTION == 500

\* the quality score when purified + treated is 0 (0/0)
NaN == -2

\* a < b of two numbers, false when one of them is NaN
Less(a, b) == a # NaN /\ b # NaN /\ a < b
LessOrEqual(a, b) == a # NaN /\ b # NaN /\ a <= b

\* the values the random draws and the callers' arguments are taken from
\* Math.random() in useWaterPurification: efficiency 50% .. 80%
PurificationEfficiencies == {65}
\* Math.random() in usePowerPlant: efficiency 70% .. 90%
PowerEfficiencies == {80}
\* Math.random() in useWastewaterTreatment: efficiency 60% .. 90%
TreatmentEfficiencies == {75}
\* baseWaterInput * seasonalFactor, in resetSystem and in the simulator
WaterInputs == {20, 60}
\* glacierMeltRate of the simulator, in 1/100000: 0.00001 .. 0.0001
SimulatorMeltRates == {1, 9}
\* the arguments given to setWaterLevel
SetLevels == {70, 75, 150}

Max(a, b) == IF a > b THEN a ELSE b
Min(a, b) == IF a < b THEN a ELSE b

\* the state record `reactive<WaterSystemState>({...})` is built with, and the
\* values resetSystem assigns
InitialState ==
  [waterLevel |-> INITIAL_DAM_WATER_LEVEL * Scale,
   isAutoMode |-> TRUE,
   purifiedWater |-> INITIAL_PURIFIED_WATER * Scale,
   powerGenerated |-> INITIAL_POWER_GENERATED * Scale,
   waterDistributed |-> INITIAL_WATER_DISTRIBUTED * Scale,
   weatherCondition |-> "ensoleille",
   alerts |-> <<>>,
   irrigationWater |-> INITIAL_IRRIGATION_WATER * Scale,
   treatedWastewater |-> INITIAL_TREATED_WASTEWATER * Scale,
   waterQuality |-> INITIAL_WATER_QUALITY * Scale,
   floodRisk |-> INITIAL_FLOOD_RISK * Scale,
   userConsumption |-> INITIAL_USER_CONSUMPTION * Scale,
   glacierVolume |-> INITIAL_GLACIER_VOLUME * Scale,
   meltRate |-> INITIAL_MELT_RATE * Scale,
   waterFlow |-> INITIAL_WATER_FLOW * Scale,
   damWaterVolume |-> INITIAL_DAM_WATER_VOLUME * Scale]

NoGlacier == [volume |-> None, meltRate |-> None, waterFlow |-> None]

\* the streams before anything was emitted
InitialGraph ==
  [weatherLast |-> NoWeather,  \* weatherSimulation$: last emitted condition
   pendSim |-> 0,              \* take(1) subscriptions of the simulator awaiting it
   pendReset |-> 0,            \* take(1) subscriptions of resetSystem awaiting it
   waterSrc |-> None,          \* latest value of waterSource$
   weatherSrc |-> NoWeather,   \* latest value of weatherSource$
   glacierSrc |-> None,        \* latest value of glacierSource$
   userSrc |-> None,           \* latest value of userConsumptionSource$
   glacierLast |-> NoGlacier,  \* glacierMelt$: last emitted value
   damLast |-> None,           \* dam$: last emitted level (the scan accumulator)
   purInner |-> <<>>,          \* purification: pending release timers
   purLast |-> None,           \* purificationPlant$: running total
   powLast |-> None,           \* powerPlant$: running total
   irrLast |-> None,           \* irrigation$: running total
   wwLast |-> None,            \* wastewaterTreatment$: running total
   qualLast |-> None,          \* waterQualityControl$: last score
   floodLast |-> None,         \* floodPrediction$: last risk
   userAcc |-> 0,              \* userWaterManagement$: running total
   userLast |-> None,          \* userWaterManagement$: last emitted value
   distAcc |-> 0,              \* waterDistribution$: running total
   distLast |-> None,          \* waterDistribution$: last emitted value
   damAt |-> None,             \* history: the time of the last emission of dam$
   glacierOut |-> None,        \* history: the volume the last glacier tick since
                               \* resetSystem computed
   damEnd |-> "none",          \* dam$: how it ended ("error", "complete"), if it did
   errorLog |-> {}]            \* the contexts logError and console.error were called with

\* calculationCache.get(key) of a key that is not in the map
NoEntry == [value |-> None, timestamp |-> None]
\* a computed ref is evaluated at its first read
NeverRead == [value |-> None, dirty |-> TRUE, deps |-> {}]

(***************************************************************************)
(* One task (a timer callback or a call of a control function) runs to     *)
(* completion; the stream notifications it causes are synchronous.  A      *)
(* context g carries what the task reads and writes:                       *)
(*   st, gr         state, graph                                           *)
(*   al             the addAlert calls made so far                         *)
(*   wr             the state fields written so far with a new value       *)
(*   cs             the subscriptions made at construction are live        *)
(*   rs             number of subscription sets made by resetSystem        *)
(*   man            isManualMode                                           *)
(*   pe, we, te     the efficiencies Math.random() yields in this task     *)
(***************************************************************************)
Context(pe, we, te) ==
  [st |-> state, gr |-> graph, al |-> <<>>, wr |-> {},
   cs |-> ~destroyed, rs |-> resetSubs, man |-> isManualMode,
   pe |-> pe, we |-> we, te |-> te]

\* the fields in which two state records differ
Written(before, after) == {field \in DOMAIN before : before[field] # after[field]}

\* the task replaces the state record by st
WriteState(g, st) == [g EXCEPT !.st = st, !.wr = @ \cup Written(g.st, st)]

SetState(g, field, value) == WriteState(g, [g.st EXCEPT ![field] = value])

\* distinctUntilChanged() of optimizedSubscribe: prev is the value before
PassesDistinct(prev, value) == prev = None \/ value # prev

\* a stream value reaches the subscriptions that assign it to a state field:
\* the one made at construction (optimizedSubscribe) and those of resetSystem
AssignToState(g, field, value, prev) ==
  IF g.rs > 0 \/ (g.cs /\ PassesDistinct(prev, value))
  THEN SetState(g, field, value)
  ELSE g

\* a stream value reaches subscriptions that add it to a state field
\* (resetSystem: state.purifiedWater += water), after the one made at
\* construction, which assigns it
AddToState(g, field, value, prev) ==
  LET g1 == IF g.cs /\ PassesDistinct(prev, value) THEN SetState(g, field, value) ELSE g
  IN SetState(g1, field, g1.st[field] + g.rs * value)

\* addAlert called from a subscription callback; the calls of a task are
\* kept in order and made by Commit
AlertFrom(g, message, priority) ==
  [g EXCEPT !.al = Append(@, [message |-> message, priority |-> priority])]

(***************************************************************************)
(* alertSystem$: the rules merged over the shared streams; tap(addAlert)   *)
(* sits before shareReplay(1), so a rule that fires calls addAlert once,   *)
(* whatever the number of subscriptions                                    *)
(***************************************************************************)
DamRule(g, level) ==
  IF level >= VERY_HIGH_WATER_LEVEL * Scale
  THEN AlertFrom(g, "Alerte : Niveau du barrage critique! (90%+)", "high")
  ELSE IF level >= HIGH_WATER_LEVEL * Scale
  THEN AlertFrom(g, "Avertissement : Niveau du barrage eleve (80%+)", "medium")
  ELSE IF level <= CRITICAL_WATER_LEVEL * Scale
  THEN AlertFrom(g, "Alerte : Niveau du barrage tres bas! (20% ou moins)", "high")
  ELSE IF level <= LOW_WATER_LEVEL * Scale
  THEN AlertFrom(g, "Avertissement : Niveau du barrage bas (30% ou moins)", "medium")
  ELSE g

QualityRule(g, quality) ==
  IF Less(quality, LOW_WATER_QUALITY * Scale)
  THEN AlertFrom(g, "Alerte : Qualite de l'eau en dessous des normes!", "high")
  ELSE g

FloodRule(g, risk) ==
  IF risk > HIGH_FLOOD_RISK * Scale
  THEN AlertFrom(g, "Alerte : Risque eleve d'inondation!", "high")
  ELSE g

DistributionRule(g, water) ==
  LET g1 == IF water < LOW_WATER_DISTRIBUTION * Scale
            THEN AlertFrom(g, "Alerte : Distribution d'eau faible", "medium")
            ELSE g
  IN IF water > HIGH_WATER_DISTRIBUTION * Scale
     THEN AlertFrom(g1, "Information : Distribution d'eau elevee", "low")
     ELSE g1

IrrigationRule(g, water) ==
  IF water > HIGH_IRRIGATION_WATER * Scale
  THEN AlertFrom(g, "Alerte : Consommation d'eau pour l'irrigation elevee", "medium")
  ELSE g

PowerRule(g, power) ==
  LET g1 == IF power < LOW_POWER_GENERATION * Scale
            THEN AlertFrom(g, "Alerte : Production d'energie faible", "medium")
            ELSE g
  IN IF power > HIGH_POWER_GENERATION * Scale
     THEN AlertFrom(g1, "Information : Production d'energie exceptionnellement elevee", "low")
     ELSE g1

UserRule(g, consumption) ==
  IF consumption > HIGH_USER_CONSUMPTION * Scale
  THEN AlertFrom(g, "Alerte : Consommation d'eau des utilisateurs elevee", "medium")
  ELSE g

RECURSIVE AddAlerts(_, _, _, _)
\* the addAlert calls `calls`, in order, on the queue (map, nodes) at time t
AddAlerts(map, nodes, t, calls) ==
  IF calls = <<>> THEN [map |-> map, nodes |-> nodes]
  ELSE LET r == addAlertAt(map, nodes, t, calls[1].message, calls[1].priority)
       IN AddAlerts(r.map, r.nodes, t, Tail(calls))

RECURSIVE InsertSorted(_, _)
InsertSorted(seq, e) ==
  IF seq = <<>> THEN <<e>>
  ELSE IF e.amount < seq[1].amount \/ (e.amount = seq[1].amount /\ e.left <= seq[1].left)
       THEN <<e>> \o seq
       ELSE <<seq[1]>> \o InsertSorted(Tail(seq), e)

RemoveAt(seq, i) == [k \in 1..(Len(seq) - 1) |-> IF k < i THEN seq[k] ELSE seq[k + 1]]

(***************************************************************************)
(* dam$ and the streams derived from it                                    *)
(***************************************************************************)
\* the scan of useDamManagement without the final Math.max(0, Math.min(., 100))
DamScan_Unclamped(acc, waterInput, weather, waterFlow) ==
  LET a1 == acc + (waterInput * 5) \div 1000 + (waterFlow * 5) \div 1000
      a2 == a1 - (a1 * 3) \div 1000
      a3 == CASE weather = "pluvieux" -> (a2 * 12) \div 10
               [] weather = "orageux" -> (a2 * 14) \div 10
               [] weather = "ensoleille" -> (a2 * 9) \div 10
               [] OTHER -> a2
  IN acc + (a3 - acc) \div 10

\* the scan of useDamManagement
DamScan(acc, waterInput, weather, waterFlow) ==
  LET a1 == acc + (waterInput * 5) \div 1000 + (waterFlow * 5) \div 1000
      a2 == a1 - (a1 * 3) \div 1000
      a3 == CASE weather = "pluvieux" -> (a2 * 12) \div 10
               [] weather = "orageux" -> (a2 * 14) \div 10
               [] weather = "ensoleille" -> (a2 * 9) \div 10
               [] OTHER -> a2
      a4 == acc + (a3 - acc) \div 10
  IN Max(0, Min(a4, 100 * Scale))

\* subscription to sharedObservables.dam$ (manageSubscriptions, case 'dam$',
\* and the one re-created by resetSystem)
DamSubscribers(g, level, prev) ==
  IF g.rs > 0 \/ (g.cs /\ PassesDistinct(prev, level) /\ ~g.man)
  THEN SetState(g, "waterLevel", level)
  ELSE g

\* the filter of useWaterPurification letting the level 20 through
PurificationStart_Inclusive(g, level) ==
  IF level >= 20 * Scale
  THEN [g EXCEPT !.gr.purInner =
          InsertSorted(@, [amount |-> ((level * g.pe) \div 100) \div 5, left |-> 5])]
  ELSE g

\* useWaterPurification: filter, efficiency, and the release timer mergeMap starts
PurificationStart(g, level) ==
  IF level > 20 * Scale
  THEN [g EXCEPT !.gr.purInner =
          InsertSorted(@, [amount |-> ((level * g.pe) \div 100) \div 5, left |-> 5])]
  ELSE g

\* usePowerPlant, and the subscriptions to sharedObservables.powerPlant$
PowerPlant(g, level) ==
  IF level > 30 * Scale
  THEN LET prev == g.gr.powLast
           acc == (IF prev = None THEN 0 ELSE prev) + (level * 4 * g.we) \div 100
       IN IF PassesDistinct(prev, acc)
          THEN PowerRule(AddToState([g EXCEPT !.gr.powLast = acc], "powerGenerated", acc, prev),
                         acc)
          ELSE g
  ELSE g

\* the alerts raised by manageSubscriptions, case 'waterDistribution$'
DistributionAlerts(g, distributionValue) ==
  IF distributionValue < LOW_WATER_DISTRIBUTION * Scale
  THEN AlertFrom(g, "Distribution d'eau faible", "medium")
  ELSE IF distributionValue > HIGH_WATER_DISTRIBUTION * Scale
       THEN AlertFrom(g, "Distribution d'eau elevee", "low")
       ELSE g

\* useWaterDistribution without the floor at zero of its last map
WaterDistribution_NoFloor(g, level) ==
  LET value == IF level > 70 * Scale THEN (level * 8) \div 10
               ELSE IF level > 30 * Scale THEN (level * 5) \div 10
               ELSE (level * 2) \div 10
      total == g.gr.distAcc + value
      out == total - DAILY_RESET_VALUE * Scale
      prev == g.gr.distLast
      g1 == [g EXCEPT !.gr.distAcc = total, !.gr.distLast = out]
      g2 == IF g.cs /\ PassesDistinct(prev, out)
            THEN DistributionAlerts(SetState(g1, "waterDistributed", out), out)
            ELSE g1
      g3 == DistributionRule(g2, out)
  IN IF g.rs > 0 THEN SetState(g3, "waterDistributed", out) ELSE g3

\* useWaterDistribution, and the subscriptions to sharedObservables.waterDistribution$
WaterDistribution(g, level) ==
  LET value == IF level > 70 * Scale THEN (level * 8) \div 10
               ELSE IF level > 30 * Scale THEN (level * 5) \div 10
               ELSE (level * 2) \div 10
      total == g.gr.distAcc + value
      out == Max(0, total - DAILY_RESET_VALUE * Scale)
      prev == g.gr.distLast
      g1 == [g EXCEPT !.gr.distAcc = total, !.gr.distLast = out]
      g2 == IF g.cs /\ PassesDistinct(prev, out)
            THEN DistributionAlerts(SetState(g1, "waterDistributed", out), out)
            ELSE g1
      g3 == DistributionRule(g2, out)
  IN IF g.rs > 0 THEN SetState(g3, "waterDistributed", out) ELSE g3

\* dam$ emits `level`
DamEmit(g, level) ==
  LET prev == g.gr.damLast
      g1 == [g EXCEPT !.gr.damLast = level, !.gr.damAt = now]
      g2 == DamRule(DamSubscribers(g1, level, prev), level)
  IN WaterDistribution(PowerPlant(PurificationStart(g2, level), level), level)

\* combineLatest([waterSource$, weatherSource$, glacierMelt$, initialWaterLevel])
\* after one of its inputs emitted
DamRecompute(g) ==
  IF g.gr.damEnd # "none" \/ g.gr.waterSrc = None \/ g.gr.weatherSrc = NoWeather \/ g.gr.glacierLast.volume = None
  THEN g
  ELSE LET acc == IF g.gr.damLast = None THEN InitialWaterLevelSeed * Scale ELSE g.gr.damLast
       IN DamEmit(g, DamScan(acc, g.gr.waterSrc, g.gr.weatherSrc, g.gr.glacierLast.waterFlow))

\* dataSources.*.next(value)
WaterNext(g, value) == DamRecompute([g EXCEPT !.gr.waterSrc = value])
WeatherNext(g, weather) == DamRecompute([g EXCEPT !.gr.weatherSrc = weather])
GlacierNext(g, volume) == [g EXCEPT !.gr.glacierSrc = volume]
UserConsumptionNext(g, value) == [g EXCEPT !.gr.userSrc = value]
\* setInitialWaterLevel: initialWaterLevel.next(level) makes combineLatest emit;
\* the scan does not read initialLevel, its accumulator goes on
setInitialWaterLevel(g, level) == DamRecompute(g)

\* useWastewaterTreatment, after wastewaterSource$.next(value)
WastewaterNext(g, value) ==
  LET prev == g.gr.wwLast
      acc == (IF prev = None THEN 0 ELSE prev) + (value * g.te) \div 100
  IN IF PassesDistinct(prev, acc)
     THEN AssignToState([g EXCEPT !.gr.wwLast = acc], "treatedWastewater", acc, prev)
     ELSE g

RECURSIVE WeatherNextTimes(_, _, _)
\* weatherSource$.next(weather) called n times in a row
WeatherNextTimes(g, weather, n) ==
  IF n = 0 THEN g ELSE WeatherNextTimes(WeatherNext(g, weather), weather, n - 1)

\* weatherSimulation$.pipe(take(1)).subscribe(...) of the simulator: the replayed
\* condition is delivered at once, or the subscription waits for the first one
SimulatorTakeWeather(g) ==
  IF g.gr.weatherLast = NoWeather
  THEN [g EXCEPT !.gr.pendSim = @ + 1]
  ELSE WeatherNext(g, g.gr.weatherLast)

\* the same subscription made by resetSystem
ResetTakeWeather(g) ==
  IF g.gr.weatherLast = NoWeather
  THEN [g EXCEPT !.gr.pendReset = @ + 1]
  ELSE WeatherNext(SetState(g, "weatherCondition", g.gr.weatherLast), g.gr.weatherLast)

(***************************************************************************)
(* The interval-driven streams: what one firing of the timer does          *)
(***************************************************************************)
\* MELT_RATE_* in 1/100000
MeltRate(weather) ==
  CASE weather = "ensoleille" -> 10
    [] weather = "nuageux" -> 5
    [] weather = "pluvieux" -> 15
    [] weather = "orageux" -> 20

\* useGlacierMelt
GlacierMelt(g) ==
  LET volume == g.gr.glacierSrc
      meltRate == (volume * MeltRate(g.gr.weatherSrc)) \div 100000
      value == [volume |-> Max(0, volume - meltRate), meltRate |-> meltRate,
                waterFlow |-> (meltRate * 8) \div 10]
      prev == g.gr.glacierLast
  IN IF prev.volume # None /\ prev.volume = value.volume /\ prev.waterFlow = value.waterFlow
     THEN [g EXCEPT !.gr.glacierOut = value.volume]
     ELSE LET g1 == DamRecompute([g EXCEPT !.gr.glacierSrc = value.volume,
                                            !.gr.glacierLast = value,
                                            !.gr.glacierOut = value.volume])
          IN IF g.cs \/ g.rs > 0
             THEN WriteState(g1, [g1.st EXCEPT !.glacierVolume = value.volume,
                                               !.meltRate = value.meltRate,
                                               !.waterFlow = value.waterFlow])
             ELSE g1

\* a release of the purification plant that carries no water
PurificationRelease_Empty(g, i) ==
  LET e == g.gr.purInner[i]
      prev == g.gr.purLast
      total == IF prev = None THEN 0 ELSE prev
      rest == RemoveAt(g.gr.purInner, i)
      inner == IF e.left = 1 THEN rest
               ELSE InsertSorted(rest, [amount |-> e.amount, left |-> e.left - 1])
  IN AddToState([g EXCEPT !.gr.purInner = inner, !.gr.purLast = total],
                "purifiedWater", total, prev)

\* one release of the purification plant: the i-th pending timer fires
PurificationRelease(g, i) ==
  LET e == g.gr.purInner[i]
      prev == g.gr.purLast
      total == (IF prev = None THEN 0 ELSE prev) + e.amount
      rest == RemoveAt(g.gr.purInner, i)
      inner == IF e.left = 1 THEN rest
               ELSE InsertSorted(rest, [amount |-> e.amount, left |-> e.left - 1])
  IN AddToState([g EXCEPT !.gr.purInner = inner, !.gr.purLast = total],
                "purifiedWater", total, prev)

\* useIrrigation
Irrigation(g) ==
  LET need == (g.gr.purLast * 3) \div 10
      adjusted == CASE g.gr.weatherSrc = "ensoleille" -> (need * 12) \div 10
                    [] g.gr.weatherSrc = "pluvieux" -> (need * 5) \div 10
                    [] OTHER -> need
      prev == g.gr.irrLast
      total == (IF prev = None THEN 0 ELSE prev) + adjusted
  IN IF PassesDistinct(prev, total)
     THEN IrrigationRule(AssignToState([g EXCEPT !.gr.irrLast = total],
                                       "irrigationWater", total, prev), total)
     ELSE g

\* useWaterQualityControl
WaterQualityControl(g) ==
  LET purified == g.gr.purLast
      treated == g.gr.wwLast
      score == IF purified + treated = 0 THEN NaN
               ELSE (purified * 100 * Scale) \div (purified + treated)
      stormy == IF score # NaN /\ g.gr.weatherSrc = "orageux" THEN (score * 9) \div 10 ELSE score
      value == IF stormy = NaN THEN NaN ELSE Max(0, Min(100 * Scale, stormy))
      prev == g.gr.qualLast
  IN QualityRule(AssignToState([g EXCEPT !.gr.qualLast = value], "waterQuality", value, prev),
                 value)

\* useFloodPrediction with the second level threshold met at 90 already
FloodPrediction_Inclusive(g) ==
  LET waterLevel == g.gr.damLast
      weather == g.gr.weatherSrc
      risk == (IF weather = "pluvieux" THEN 20 ELSE 0)
              + (IF weather = "orageux" THEN 40 ELSE 0)
              + (IF waterLevel > 80 * Scale THEN 30 ELSE 0)
              + (IF waterLevel >= 90 * Scale THEN 20 ELSE 0)
      value == Min(100, risk) * Scale
      prev == g.gr.floodLast
  IN FloodRule(AssignToState([g EXCEPT !.gr.floodLast = value], "floodRisk", value, prev),
               value)

\* useFloodPrediction
FloodPrediction(g) ==
  LET waterLevel == g.gr.damLast
      weather == g.gr.weatherSrc
      risk == (IF weather = "pluvieux" THEN 20 ELSE 0)
              + (IF weather = "orageux" THEN 40 ELSE 0)
              + (IF waterLevel > 80 * Scale THEN 30 ELSE 0)
              + (IF waterLevel > 90 * Scale THEN 20 ELSE 0)
      value == Min(100, risk) * Scale
      prev == g.gr.floodLast
  IN FloodRule(AssignToState([g EXCEPT !.gr.floodLast = value], "floodRisk", value, prev),
               value)

\* useUserWaterManagement
UserWaterManagement(g) ==
  LET c1 == IF Less(g.gr.qualLast, 50 * Scale) THEN (g.gr.userSrc * 8) \div 10 ELSE g.gr.userSrc
      c2 == IF g.gr.weatherSrc = "ensoleille" THEN (c1 * 12) \div 10 ELSE c1
      total == g.gr.userAcc + c2
      value == Max(0, total - DAILY_RESET_VALUE * Scale)
      prev == g.gr.userLast
  IN UserRule(AssignToState([g EXCEPT !.gr.userAcc = total, !.gr.userLast = value],
                            "userConsumption", value, prev), value)

\* useWeatherSimulation emits `weather`: the subscriptions to weather$, then
\* the take(1) subscriptions that were waiting
WeatherSimulation(g, weather) ==
  LET g1 == [g EXCEPT !.gr.weatherLast = weather, !.gr.pendSim = 0, !.gr.pendReset = 0]
      g2 == IF g.cs \/ g.rs > 0 \/ g.gr.pendReset > 0
            THEN SetState(g1, "weatherCondition", weather)
            ELSE g1
  IN WeatherNextTimes(g2, weather, g.rs + g.gr.pendSim + g.gr.pendReset)

\* the callback of the simulator's setInterval
Simulate(g, waterInput, meltRate, volume) ==
  SimulatorTakeWeather(GlacierNext(WaterNext(g, waterInput * Scale), volume))

\* currentGlacierVolume.getValue() * (1 - glacierMeltRate)
SimulatedGlacierVolume(volume, meltRate) == Max(0, volume - (volume * meltRate) \div 100000)

(***************************************************************************)
(* The end of a task                                                       *)
(***************************************************************************)
\* watch(() => state.waterLevel, ...): the callback runs when the task is
\* over, if the level differs from the one the watcher saw last
WatchWaterLevel(before, after) ==
  IF after.waterLevel # before.waterLevel
  THEN [after EXCEPT !.damWaterVolume = after.waterLevel * (INITIAL_DAM_WATER_VOLUME \div 100)]
  ELSE after

\* Vue marks dirty the computed refs whose last evaluation read a field that
\* is written, and the computed refs that read such a ref
Trigger(refs, fields) ==
  LET direct == {name \in DOMAIN refs : refs[name].deps \cap fields # {}}
      hit == direct \cup {name \in DOMAIN refs : refs[name].deps \cap direct # {}}
  IN [name \in DOMAIN refs |->
        IF name \in hit THEN [refs[name] EXCEPT !.dirty = TRUE] ELSE refs[name]]

Commit(g) ==
  /\ state' = WatchWaterLevel(state, g.st)
  /\ computedRefs' = Trigger(computedRefs, g.wr)
  /\ changedAt' = IF g.wr \cap {"purifiedWater", "waterDistributed"} # {} THEN now ELSE changedAt
  /\ graph' = g.gr
  /\ LET r == AddAlerts(alertMap, alertQueue, now, g.al)
     IN alertQueue' = r.nodes /\ alertMap' = r.map

ModeVars == <<isManualMode, manualWaterLevel, isAutoMode, simulationInterval, simulationTimers,
              toggles>>
SubscriptionVars == <<destroyed, resetSubs>>
\* what a task of the water system leaves alone unless it says otherwise
TaskFrame == UNCHANGED <<now, lastAdd, lastEvict, lifeVars, calculationCache, lastRead>>
TimerFrame == TaskFrame /\ UNCHANGED <<ModeVars, SubscriptionVars, currentGlacierVolume>>

\* what lastCall remembers of a task: the function called, its argument and
\* the mode it was called in
Called(op, level) == [op |-> op, level |-> level, manual |-> isManualMode]

\* a timer fires: its callback turns the context into g
Timer(g) ==
  /\ tasks < MaxTasks
  /\ tasks' = tasks + 1
  /\ lastCall' = Called("timer", None)
  /\ Commit(g)
  /\ TimerFrame

\* the contexts a timer callback can start from, one per outcome of the
\* random draws
Contexts ==
  {Context(pe, we, te) : pe \in PurificationEfficiencies, we \in PowerEfficiencies,
                         te \in TreatmentEfficiencies}

(***************************************************************************)
(* Errors.  catchError(selector) subscribes the rest of the pipeline to    *)
(* what the selector returns: throwError(...) ends it with an error, of()  *)
(* completes it.                                                           *)
(***************************************************************************)
\* handleError of utils/errorUtils: console.error, then of()
errorUtils_handleError(context) == [logged |-> context, returns |-> "complete"]

\* handleError of utils/errorHandler, the one useDamManagement imports:
\* logError, then throwError(() => errorWithContext)
handleError(context) == [logged |-> context, returns |-> "error"]

\* the streams built on dam$, directly or through purificationPlant$ and
\* waterQualityControl$; none of them catches an error of its input
DamDerived ==
  {"purificationPlant$", "powerPlant$", "waterDistribution$", "floodPrediction$",
   "irrigation$", "waterQualityControl$", "userWaterManagement$"}

\* the streams an error of dam$ has ended
Errored(gr) == IF gr.damEnd = "error" THEN {"dam$"} \cup DamDerived ELSE {}

\* the subscriptions of manageSubscriptions pipe each shared stream through
\* catchError(handleError(error, `Souscription a ${key}`)) of utils/errorUtils
SubscriptionLog(g, streams) ==
  IF g.cs \/ g.rs > 0 THEN {errorUtils_handleError(key).logged : key \in streams} ELSE {}

\* the computation of dam$ (or one of its inputs) raises an error
DamError(g) ==
  LET h == handleError("Calcul du niveau du barrage")
      g1 == [g EXCEPT !.gr.damEnd = h.returns, !.gr.errorLog = @ \cup {h.logged}]
  IN IF h.returns = "error"
     THEN \* the error reaches every stream built on dam$; mergeMap drops its
          \* release timers; each subscription logs and completes
          [g1 EXCEPT !.gr.purInner = <<>>,
                     !.gr.errorLog = @ \cup SubscriptionLog(g, Errored(g1.gr))]
     ELSE g1

(***************************************************************************)
(* Timers                                                                  *)
(***************************************************************************)
GlacierTick ==
  /\ graph.weatherSrc # NoWeather /\ graph.glacierSrc # None
  /\ \E g \in Contexts : Timer(GlacierMelt(g))

PurificationTick ==
  \E i \in 1..Len(graph.purInner), g \in Contexts : Timer(PurificationRelease(g, i))

IrrigationTick ==
  /\ "irrigation$" \notin Errored(graph)
  /\ graph.purLast # None /\ graph.weatherSrc # NoWeather
  /\ \E g \in Contexts : Timer(Irrigation(g))

QualityTick ==
  /\ "waterQualityControl$" \notin Errored(graph)
  /\ graph.purLast # None /\ graph.wwLast # None /\ graph.weatherSrc # NoWeather
  /\ \E g \in Contexts : Timer(WaterQualityControl(g))

FloodTick ==
  /\ "floodPrediction$" \notin Errored(graph)
  /\ graph.damLast # None /\ graph.weatherSrc # NoWeather
  /\ \E g \in Contexts : Timer(FloodPrediction(g))

UserTick ==
  /\ "userWaterManagement$" \notin Errored(graph)
  /\ graph.userSrc # None /\ graph.qualLast # None /\ graph.weatherSrc # NoWeather
  /\ \E g \in Contexts : Timer(UserWaterManagement(g))

damFault ==
  /\ graph.damEnd = "none"
  /\ graph.damLast # None
  /\ \E g \in Contexts : Timer(DamError(g))

WeatherTick ==
  \E weather \in Weathers \ {graph.weatherLast}, g \in Contexts :
    Timer(WeatherSimulation(g, weather))

SimulationTick ==
  /\ tasks < MaxTasks
  /\ simulationTimers > 0
  /\ tasks' = tasks + 1
  /\ lastCall' = Called("timer", None)
  /\ IF isAutoMode
     THEN \E waterInput \in WaterInputs, meltRate \in SimulatorMeltRates, g \in Contexts :
            LET volume == SimulatedGlacierVolume(currentGlacierVolume, meltRate)
            IN /\ currentGlacierVolume' = volume
               /\ Commit(Simulate(g, waterInput, meltRate, volume))
     ELSE UNCHANGED <<currentGlacierVolume, state, graph, alertQueue, alertMap, computedRefs,
                      changedAt>>
  /\ TaskFrame
  /\ UNCHANGED <<ModeVars, SubscriptionVars>>

(***************************************************************************)
(* Control functions                                                       *)
(***************************************************************************)
\* a call from the application is a task too; the component calls the
\* control functions while it is mounted
Call(op, level) ==
  /\ tasks < MaxTasks
  /\ ~unmounted
  /\ tasks' = tasks + 1
  /\ lastCall' = Called(op, level)
  /\ TaskFrame
  /\ UNCHANGED currentGlacierVolume

\* useSimulation: the handle simulationInterval and the timers that are set
Sim == [interval |-> simulationInterval, timers |-> simulationTimers]

SetSim(sim) ==
  /\ simulationInterval' = sim.interval
  /\ simulationTimers' = sim.timers

\* startSimulation without its test of simulationInterval
startSimulation_Unguarded(sim) ==
  [interval |-> TRUE, timers |-> sim.timers + 1]

\* startSimulation: if (simulationInterval) return; ... = window.setInterval(...)
startSimulation(sim) ==
  IF sim.interval THEN sim ELSE [interval |-> TRUE, timers |-> sim.timers + 1]

\* stopSimulation: if (simulationInterval) { clearInterval(...); ... = null }
stopSimulation(sim) ==
  IF sim.interval THEN [interval |-> FALSE, timers |-> sim.timers - 1] ELSE sim

\* useSimulation.toggleAutoMode, once isAutoMode has been flipped to `auto`
simulationToggle(sim, auto) ==
  IF auto THEN startSimulation(sim) ELSE stopSimulation(sim)

\* setWaterLevel as it would be without the test of isManualMode
setWaterLevel_Unguarded(level) ==
  /\ Call("setWaterLevel", level * Scale)
  /\ manualWaterLevel' = level * Scale
  /\ state' = WatchWaterLevel(state, [state EXCEPT !.waterLevel = level * Scale])
  /\ UNCHANGED <<isManualMode, isAutoMode, simulationInterval, simulationTimers, graph,
                 alertQueue, alertMap,
                 SubscriptionVars, computedRefs, changedAt, toggles>>

setWaterLevel(level) ==
  /\ Call("setWaterLevel", level * Scale)
  /\ IF isManualMode
     THEN /\ manualWaterLevel' = level * Scale
          /\ state' = WatchWaterLevel(state, [state EXCEPT !.waterLevel = level * Scale])
     ELSE UNCHANGED <<manualWaterLevel, state>>
  /\ UNCHANGED <<isManualMode, isAutoMode, simulationInterval, simulationTimers, graph,
                 alertQueue, alertMap,
                 SubscriptionVars, computedRefs, changedAt, toggles>>

\* toggleManualMode as it would be if nothing started the simulator again
toggleManualMode_NoRestart ==
  /\ Call("toggleManualMode", None)
  /\ isManualMode' = ~isManualMode
  /\ manualWaterLevel' = IF isManualMode' THEN state.waterLevel ELSE manualWaterLevel
  /\ isAutoMode' = ~isAutoMode
  /\ SetSim(stopSimulation(simulationToggle(
        IF isManualMode' THEN stopSimulation(Sim) ELSE startSimulation(Sim), isAutoMode')))
  /\ toggles' = toggles + 1
  /\ UNCHANGED <<state, graph, alertQueue, alertMap, SubscriptionVars, computedRefs, changedAt>>

toggleManualMode ==
  /\ Call("toggleManualMode", None)
  /\ isManualMode' = ~isManualMode
  /\ manualWaterLevel' = IF isManualMode' THEN state.waterLevel ELSE manualWaterLevel
  \* simulationToggleAutoMode(): the simulator's own flag decides its timer
  /\ isAutoMode' = ~isAutoMode
  /\ SetSim(simulationToggle(
        IF isManualMode' THEN stopSimulation(Sim) ELSE startSimulation(Sim), isAutoMode'))
  /\ toggles' = toggles + 1
  /\ UNCHANGED <<state, graph, alertQueue, alertMap, SubscriptionVars, computedRefs, changedAt>>

toggleAutoMode ==
  /\ Call("toggleAutoMode", None)
  /\ isManualMode' = FALSE
  /\ UNCHANGED <<manualWaterLevel, isAutoMode, simulationInterval, simulationTimers, state, graph,
                 alertQueue, alertMap, SubscriptionVars, computedRefs, changedAt, toggles>>

\* what a call of the simulation controls leaves alone
SimulationFrame ==
  UNCHANGED <<isManualMode, manualWaterLevel, toggles, state, graph, alertQueue, alertMap,
              SubscriptionVars, computedRefs, changedAt>>

\* simulationControls.toggleAutoMode()
simulationToggleAutoMode ==
  /\ Call("simulationControls.toggleAutoMode", None)
  /\ isAutoMode' = ~isAutoMode
  /\ SetSim(simulationToggle(Sim, isAutoMode'))
  /\ SimulationFrame

\* simulationControls.startSimulation()
startSimulationCall ==
  /\ Call("simulationControls.startSimulation", None)
  /\ SetSim(startSimulation(Sim))
  /\ UNCHANGED isAutoMode
  /\ SimulationFrame

\* simulationControls.stopSimulation()
stopSimulationCall ==
  /\ Call("simulationControls.stopSimulation", None)
  /\ SetSim(stopSimulation(Sim))
  /\ UNCHANGED isAutoMode
  /\ SimulationFrame

\* the subscriptions resetSystem re-creates receive the value each shared
\* stream emitted last
ReplayToNewSubscriptions(g) ==
  LET gr == g.gr
      Put(st, field, value) == IF value = None THEN st ELSE [st EXCEPT ![field] = value]
      Plus(st, field, value) == IF value = None THEN st ELSE [st EXCEPT ![field] = @ + value]
      s1 == Put(g.st, "waterLevel", gr.damLast)
      s2 == Plus(s1, "purifiedWater", gr.purLast)
      s3 == Plus(s2, "powerGenerated", gr.powLast)
      s4 == Put(s3, "irrigationWater", gr.irrLast)
      s5 == Put(s4, "treatedWastewater", gr.wwLast)
      s6 == Put(s5, "waterQuality", gr.qualLast)
      s7 == Put(s6, "floodRisk", gr.floodLast)
      s8 == Put(s7, "userConsumption", gr.userLast)
      \* weather$: the callback also feeds weatherSource$, which the
      \* subscriptions made so far observe
      g1 == [WriteState(g, s8) EXCEPT !.rs = @ + 1]
      g2 == IF gr.weatherLast = NoWeather THEN g1
            ELSE WeatherNext(SetState(g1, "weatherCondition", gr.weatherLast), gr.weatherLast)
      s9 == Put(g2.st, "waterDistributed", g2.gr.distLast)
      s10 == IF g2.gr.glacierLast.volume = None THEN s9
             ELSE [s9 EXCEPT !.glacierVolume = g2.gr.glacierLast.volume,
                             !.meltRate = g2.gr.glacierLast.meltRate,
                             !.waterFlow = g2.gr.glacierLast.waterFlow]
  IN WriteState(g2, s10)

resetSystemRun(g, waterInput) ==
  LET g0 == [WriteState(g, InitialState) EXCEPT !.cs = FALSE, !.gr.glacierOut = None]
      g1 == setInitialWaterLevel(g0, INITIAL_DAM_WATER_LEVEL * Scale)
      g2 == WaterNext(g1, INITIAL_WATER_LEVEL * Scale)
      g3 == WeatherNext(g2, "ensoleille")
      g4 == WastewaterNext(g3, INITIAL_TREATED_WASTEWATER * Scale)
      g5 == UserConsumptionNext(g4, INITIAL_USER_CONSUMPTION * Scale)
      g6 == GlacierNext(g5, INITIAL_GLACIER_VOLUME * Scale)
      g7 == WaterNext(g6, waterInput * Scale)
      g8 == GlacierNext(g7, g7.st.glacierVolume)
      g9 == ResetTakeWeather(g8)
  IN ReplayToNewSubscriptions(g9)

resetSystem ==
  /\ Call("resetSystem", None)
  /\ resetSubs < MaxResets
  /\ \E waterInput \in WaterInputs, g \in Contexts : Commit(resetSystemRun(g, waterInput))
  /\ destroyed' = TRUE
  /\ resetSubs' = resetSubs + 1
  /\ SetSim(startSimulation(stopSimulation(Sim)))
  /\ UNCHANGED <<isManualMode, manualWaterLevel, isAutoMode, toggles>>

setWaterLevelCall == \E level \in SetLevels : setWaterLevel(level)

\* the two onUnmounted hooks: destroy$.next() and complete() (without effect
\* on a destroy$ that is already completed), stopSimulation(),
\* clearInterval(cleanupInterval), calculationCache.clear()
onUnmounted ==
  /\ tasks < MaxTasks
  /\ ~unmounted
  /\ tasks' = tasks + 1
  /\ lastCall' = Called("onUnmounted", None)
  /\ unmounted' = TRUE
  /\ destroyed' = TRUE
  /\ SetSim(stopSimulation(Sim))
  /\ cleanupInterval' = FALSE
  /\ calculationCache' = [key \in DOMAIN calculationCache |-> NoEntry]
  /\ UNCHANGED <<alertVars, state, graph, isManualMode, manualWaterLevel, isAutoMode,
                 currentGlacierVolume, resetSubs, computedRefs, lastRead, changedAt, toggles,
                 retry>>

OrchInitFrom(st, gr) ==
  /\ state = st
  /\ isManualMode = FALSE
  /\ manualWaterLevel = INITIAL_WATER_LEVEL * Scale
  /\ isAutoMode = TRUE
  /\ simulationInterval = FALSE
  /\ simulationTimers = 0
  /\ currentGlacierVolume = 1000000 * Scale
  /\ destroyed = FALSE
  /\ resetSubs = 0
  /\ graph = gr
  /\ tasks = 0
  /\ lastCall = [op |-> "none", level |-> None, manual |-> FALSE]
  /\ toggles = 0

OrchInit == OrchInitFrom(InitialState, InitialGraph)

\* a stream under retryWhen(retryStrategy(options)) whose source fails its
\* first `failures` subscriptions with an error of status `status`, before
\* anything subscribed to it
RetryOf(failures, status, maxRetryAttempts, scalingDuration, excludedStatusCodes) ==
  [failures |-> failures, errorStatus |-> status,
   maxRetryAttempts |-> maxRetryAttempts, scalingDuration |-> scalingDuration,
   excludedStatusCodes |-> excludedStatusCodes,
   subscriptions |-> 0,    \* callCount: subscriptions of the source so far
   errors |-> 0,           \* the index mergeMap has reached: errors notified so far
   delays |-> <<>>,        \* history: the timer(...) delays so far
   clock |-> 0,            \* time on the stream's scheduler
   due |-> None,           \* when the pending timer(...) fires
   delivered |-> 0,        \* values the subscriber has received
   thrown |-> None,        \* the error the subscriber received: its number
   status |-> "idle"]      \* idle, waiting, complete, error

\* the stream of the defaults, never subscribed
NoRetry == RetryOf(0, None, 3, 1000, {})

\* setInterval(..., 10000) of the cache cleanup is set during setup
HooksInit ==
  /\ unmounted = FALSE
  /\ cleanupInterval = TRUE

LifeInit == HooksInit /\ retry = NoRetry

CacheInit ==
  /\ calculationCache = [totalWaterProcessed |-> NoEntry, systemEfficiency |-> NoEntry]
  /\ computedRefs = [totalWaterProcessed |-> NeverRead, systemEfficiency |-> NeverRead]
  /\ lastRead = [name |-> "none", value |-> None, calculated |-> FALSE]
  /\ changedAt = 0


AlertInit ==
  /\ now = 0
  /\ alertQueue = <<>>
  /\ alertMap = <<>>
  /\ lastAdd = [key |-> "", n |-> 0, evicted |-> "", again |-> FALSE]
  /\ lastEvict = FALSE

addAlertCall == \E m \in Messages, p \in Priorities : addAlert(m, p)

Init == AlertInit /\ OrchInit /\ LifeInit /\ CacheInit

(***************************************************************************)
(* The cached aggregates.  A computed ref runs its getter when it is read  *)
(* while dirty, and then depends on the reactive fields that run has read; *)
(* calculationCache is a plain Map and Date.now() a plain call, so a run   *)
(* answered from the cache reads no reactive field.                        *)
(***************************************************************************)
\* maxAge of both aggregates, milliseconds
CacheMaxAge == 1000
\* the cleanup removes entries older than this, milliseconds
CleanupAge == 5000

\* `cached && now - cached.timestamp < maxAge`
CacheValid(cache, key, t, maxAge) ==
  cache[key] # NoEntry /\ t - cache[key].timestamp < maxAge

\* getCachedOrCalculate(key, calculationFn, maxAge) at time t, `calculated`
\* being what calculationFn returns
getCachedOrCalculate(cache, key, calculated, t, maxAge) ==
  IF CacheValid(cache, key, t, maxAge)
  THEN [value |-> cache[key].value, cache |-> cache, hit |-> TRUE]
  ELSE [value |-> calculated,
        cache |-> [cache EXCEPT ![key] = [value |-> calculated, timestamp |-> t]],
        hit |-> FALSE]

\* calculationFn of totalWaterProcessed, leaving waterDistributed out
totalWaterProcessedFn_PurifiedOnly(st) == st.purifiedWater

\* calculationFn of totalWaterProcessed
totalWaterProcessedFn(st) == st.purifiedWater + st.waterDistributed

\* calculationFn of systemEfficiency without the factor 100
systemEfficiencyFn_Ratio(st, processedWater) ==
  IF processedWater = 0 THEN 0 ELSE (st.purifiedWater * Scale) \div processedWater

\* calculationFn of systemEfficiency, a percentage in hundredths
systemEfficiencyFn(st, processedWater) ==
  IF processedWater = 0 THEN 0 ELSE (st.purifiedWater * 100 * Scale) \div processedWater

\* totalWaterProcessed.value read at time t
EvalTotalWaterProcessed(cache, refs, st, t) ==
  LET ref == refs.totalWaterProcessed
      r == getCachedOrCalculate(cache, "totalWaterProcessed", totalWaterProcessedFn(st),
                                t, CacheMaxAge)
  IN IF ~ref.dirty
     THEN [value |-> ref.value, cache |-> cache, refs |-> refs, calculated |-> FALSE]
     ELSE [value |-> r.value, cache |-> r.cache, calculated |-> ~r.hit,
           refs |-> [refs EXCEPT !.totalWaterProcessed =
                       [value |-> r.value, dirty |-> FALSE,
                        deps |-> IF r.hit THEN {}
                                 ELSE {"purifiedWater", "waterDistributed"}]]]

\* systemEfficiency.value read at time t; its calculationFn reads
\* totalWaterProcessed.value and, unless that is 0, state.purifiedWater
EvalSystemEfficiency(cache, refs, st, t) ==
  LET ref == refs.systemEfficiency
      hit == CacheValid(cache, "systemEfficiency", t, CacheMaxAge)
      total == EvalTotalWaterProcessed(cache, refs, st, t)
      r == getCachedOrCalculate(total.cache, "systemEfficiency",
                                systemEfficiencyFn(st, total.value), t, CacheMaxAge)
  IN IF ~ref.dirty
     THEN [value |-> ref.value, cache |-> cache, refs |-> refs, calculated |-> FALSE]
     ELSE IF hit
     THEN [value |-> cache.systemEfficiency.value, cache |-> cache, calculated |-> FALSE,
           refs |-> [refs EXCEPT !.systemEfficiency =
                       [value |-> cache.systemEfficiency.value, dirty |-> FALSE, deps |-> {}]]]
     ELSE [value |-> r.value, cache |-> r.cache, calculated |-> TRUE,
           refs |-> [total.refs EXCEPT !.systemEfficiency =
                       [value |-> r.value, dirty |-> FALSE,
                        deps |-> IF total.value = 0 THEN {"totalWaterProcessed"}
                                 ELSE {"totalWaterProcessed", "purifiedWater"}]]]

\* the application reads a computed ref
Read(name, r) ==
  /\ tasks < MaxTasks
  /\ tasks' = tasks + 1
  /\ calculationCache' = r.cache
  /\ computedRefs' = r.refs
  /\ lastRead' = [name |-> name, value |-> r.value, calculated |-> r.calculated]
  /\ UNCHANGED <<alertVars, state, graph, ModeVars, SubscriptionVars, currentGlacierVolume,
                 lastCall, lifeVars, changedAt>>

readTotalWaterProcessed ==
  Read("totalWaterProcessed",
       EvalTotalWaterProcessed(calculationCache, computedRefs, state, now))

readSystemEfficiency ==
  Read("systemEfficiency", EvalSystemEfficiency(calculationCache, computedRefs, state, now))

\* the callback of cleanupInterval
cleanupTick ==
  /\ tasks < MaxTasks
  /\ cleanupInterval
  /\ tasks' = tasks + 1
  /\ lastCall' = Called("timer", None)
  /\ calculationCache' =
       [key \in DOMAIN calculationCache |->
          IF calculationCache[key] # NoEntry /\ now - calculationCache[key].timestamp > CleanupAge
          THEN NoEntry ELSE calculationCache[key]]
  /\ UNCHANGED <<alertVars, state, graph, ModeVars, SubscriptionVars, currentGlacierVolume,
                 lifeVars, computedRefs, lastRead, changedAt>>

\* the running total of the distribution the system has come to, below the
\* daily reset value
DistributedSoFar == {99000}

CacheSpecInit ==
  /\ AlertInit /\ LifeInit /\ CacheInit
  /\ \E total \in DistributedSoFar :
       OrchInitFrom(InitialState, [InitialGraph EXCEPT !.distAcc = total])

(***************************************************************************)
(* Manual mode, the dam volume, the ranges, resetSystem                    *)
(***************************************************************************)
\* damWaterVolume as the watcher computes it from a level
VolumeAt(level) == level * (INITIAL_DAM_WATER_VOLUME \div 100)

\* C6: while isManualMode is false, a call setWaterLevel(v), for any v, leaves
\* every field of state (waterLevel and damWaterVolume among them) and
\* manualWaterLevel as they were.
C6_IgnoredInAutoMode ==
  [][(setWaterLevelCall /\ ~isManualMode)
       => (state' = state /\ manualWaterLevel' = manualWaterLevel)]_vars

\* setWaterLevel(75) was called in automatic mode, after the dam had moved the level
C6_Witness ==
  /\ lastCall.op = "setWaterLevel" /\ ~lastCall.manual /\ lastCall.level = 75 * Scale
  /\ state.waterLevel # INITIAL_DAM_WATER_LEVEL * Scale

\* C7: in manual mode setWaterLevel(v) makes state.waterLevel exactly v and
\* state.damWaterVolume v/100 x INITIAL_DAM_WATER_VOLUME, and leaves
\* state.purifiedWater as it was.
C7_ManualSetWaterLevel ==
  [][\A v \in SetLevels :
       (setWaterLevel(v) /\ isManualMode)
         => /\ state'.waterLevel = v * Scale
            /\ state'.damWaterVolume = VolumeAt(v * Scale)
            /\ state'.purifiedWater = state.purifiedWater]_vars

\* C8: after a task that writes state.waterLevel (the dam subscription,
\* setWaterLevel in manual mode, resetSystem), state.damWaterVolume is
\* state.waterLevel/100 x INITIAL_DAM_WATER_VOLUME.
C8_VolumeFollowsLevel ==
  [][(\/ state'.waterLevel # state.waterLevel
      \/ (lastCall'.op = "setWaterLevel" /\ lastCall'.manual)
      \/ lastCall'.op = "resetSystem")
       => state'.damWaterVolume = VolumeAt(state'.waterLevel)]_vars

\* C9: waterLevel, waterQuality and floodRisk are within [0, 100] in every
\* reachable state.
C9_Ranges ==
  /\ 0 <= state.waterLevel /\ state.waterLevel <= 100 * Scale
  /\ 0 <= state.waterQuality /\ state.waterQuality <= 100 * Scale
  /\ 0 <= state.floodRisk /\ state.floodRisk <= 100 * Scale

\* C10: right after every call of resetSystem, whatever preceded it, every
\* field of state has its configured initial value.
C10_ResetYieldsInitialState ==
  lastCall.op = "resetSystem" => state = InitialState

(***************************************************************************)
(* Teardown                                                                *)
(***************************************************************************)
\* C12: no subscription outlives the teardown signal: once onUnmounted has
\* signalled destroy$, no stream emission changes the state any more,
\* whether the subscription that receives it was made at construction or
\* re-created by an earlier resetSystem
C12_NoWriteAfterTeardown ==
  [][(unmounted /\ lastCall'.op = "timer") => state' = state]_vars

\* C13: after teardown no periodic timer of the session fires any more: no
\* timer callback runs once the component is unmounted
C13_NoTimerAfterTeardown == unmounted => lastCall.op # "timer"

(***************************************************************************)
(* The dam level over a long run                                           *)
(***************************************************************************)
\* levels (percent) the scan of dam$ comes to emit while the system runs
FeedLevels == {15, 20, 25, 95}

\* dam$ emits one of these levels: the level is drawn instead of being
\* approached by a tenth of the distance per emission
damFeed ==
  /\ graph.damEnd = "none"
  /\ \E level \in FeedLevels, g \in Contexts : Timer(DamEmit(g, level * Scale))

\* the queue holds an alert with this message and priority
HasAlert(message, priority) ==
  \E k \in 1..Len(alertQueue) :
    alertQueue[k].message = message /\ alertQueue[k].priority = priority

\* C14: when the weather is stormy and the dam stream emits level 95, the
\* alert queue holds a high-priority alert on the critical level of the dam
\* once the rules have processed the emission
C14_CriticalLevelAlert ==
  [][(damFeed /\ state.weatherCondition = "orageux"
        /\ graph'.damLast = 95 * Scale)
       => HasAlert("Alerte : Niveau du barrage critique! (90%+)", "high")']_vars

\* C15: a dam level emission of 20 or less produces no purification
\* emission: no release timer is started for it, the purified-water stream
\* keeps its running total and state.purifiedWater keeps its value
C15_NoPurificationAtLowLevel ==
  [][(damFeed /\ graph'.damLast <= 20 * Scale)
       => /\ graph'.purInner = graph.purInner
          /\ graph'.purLast = graph.purLast
          /\ state'.purifiedWater = state.purifiedWater]_vars

\* the dam emitted a level of 20 or less last, after water had been purified
C15_Witness ==
  /\ graph.damLast # None /\ graph.damLast <= 20 * Scale
  /\ graph.purLast # None /\ state.purifiedWater > 0
  /\ graph.purInner # <<>>

(***************************************************************************)
(* The cached aggregates                                                   *)
(***************************************************************************)
\* C16: whenever totalWaterProcessed is computed it is state.purifiedWater +
\* state.waterDistributed, and whenever systemEfficiency is computed it is
\* state.purifiedWater / totalWaterProcessed x 100, or 0 when
\* totalWaterProcessed is 0; read before anything was processed,
\* totalWaterProcessed is INITIAL_PURIFIED_WATER + INITIAL_WATER_DISTRIBUTED
C16_Aggregates ==
  [][/\ (readTotalWaterProcessed /\ lastRead'.calculated)
          => lastRead'.value = state.purifiedWater + state.waterDistributed
     /\ (readSystemEfficiency /\ lastRead'.calculated)
          => LET processed == computedRefs'.totalWaterProcessed.value
             IN lastRead'.value = IF processed = 0 THEN 0
                                  ELSE (state.purifiedWater * 100 * Scale) \div processed
     /\ (readTotalWaterProcessed /\ state = InitialState)
          => lastRead'.value = (INITIAL_PURIFIED_WATER + INITIAL_WATER_DISTRIBUTED) * Scale
    ]_vars

\* both aggregates have been computed from water that was purified and
\* water that was distributed
C16_Witness ==
  /\ lastRead.name = "systemEfficiency" /\ lastRead.calculated
  /\ lastRead.value > 0 /\ lastRead.value < 100 * Scale
  /\ state.purifiedWater > 0 /\ state.waterDistributed > 0
  /\ computedRefs.totalWaterProcessed.value = state.purifiedWater + state.waterDistributed

\* C18: while isManualMode is true, an emission of dam$ leaves
\* state.waterLevel as it was, before and after resetSystem (which onMounted
\* calls) has subscribed again.
C18_ManualModeFreezesLevel ==
  [][(damFeed /\ isManualMode) => state'.waterLevel = state.waterLevel]_vars

\* the interval timer of the simulator is set and its callback pushes
Pushing == simulationInterval /\ isAutoMode

C20_FailSoft ==
  [][damFault =>
       /\ "Calcul du niveau du barrage" \in graph'.errorLog
       /\ graph'.damEnd # "error"
       /\ state'.waterLevel = state.waterLevel
       /\ Errored(graph') \ {"dam$"} = {}
       /\ graph'.purInner = graph.purInner]_vars

\* entries of one priority come most recent first
RecentFirst(snapshot) ==
  \A i \in 1..Len(snapshot), j \in 1..Len(snapshot) :
    (i < j /\ snapshot[i].priority = snapshot[j].priority)
      => GetTime(snapshot[i].timestamp) >= GetTime(snapshot[j].timestamp)

\* the comparator ranks `alert` before or level with every entry of nodes
RankedFirst(alert, nodes) ==
  \A k \in 1..Len(nodes) : CompareAlerts(alert, nodes[k]) <= 0

\* C22: after every addAlert, merges included, the alerts snapshot lists the
\* entries of one priority most recent first by their current timestamps, and
\* the entry removed on overflow is one the comparator ranks first among the
\* entries as they are then.
C22_RecencyWithinPriority ==
  [][\A m \in Messages, p \in Priorities :
       addAlert(m, p) =>
         LET r == addAlertAt(alertMap, alertQueue, now, m, p)
         IN /\ RecentFirst(alerts')
            /\ r.removed # NoAlert => RankedFirst(r.removed, r.nodes)]_vars

\* what the claim gives for a tick of glacierMelt$ on volume v in weather w
GlacierExpected(v, w) ==
  LET meltRate == (v * MeltRate(w)) \div 100000
  IN [volume |-> Max(0, v - meltRate), meltRate |-> meltRate,
      waterFlow |-> (meltRate * 8) \div 10]

\* C23: on every tick of glacierMelt$, with v the latest volume of
\* glacierSource$ and w the weather, the new volume max(0, v - meltRate) is
\* not negative and is the next input of glacierSource$; a value is emitted
\* exactly when its volume or waterFlow differs from the value emitted last,
\* and it is {volume, meltRate, waterFlow} as computed from v and w.
C23_GlacierTick ==
  [][GlacierTick =>
       LET value == GlacierExpected(graph.glacierSrc, graph.weatherSrc)
           prev == graph.glacierLast
           differs == prev.volume # value.volume \/ prev.waterFlow # value.waterFlow
       IN /\ value.volume >= 0
          /\ graph'.glacierSrc = value.volume
          /\ graph'.glacierLast = IF differs THEN value ELSE prev]_vars

\* levels dam$ has emitted last, and values of waterSource$ and of the
\* glacier's waterFlow, some of them far out of the usual range
DamLevels == {0, 1, 70, 99, 100}
DamWaterInputs == {-1000000, 0, 20, 60, 1000000}
DamWaterFlows == {0, 80, 1000000}

\* useDamManagement with its inputs and its last level drawn
DamInit ==
  /\ AlertInit /\ LifeInit /\ CacheInit
  /\ \E level \in DamLevels, waterInput \in DamWaterInputs, waterFlow \in DamWaterFlows,
        weather \in Weathers :
       OrchInitFrom(InitialState,
                    [InitialGraph EXCEPT !.damLast = level * Scale,
                                         !.waterSrc = waterInput * Scale,
                                         !.weatherSrc = weather,
                                         !.glacierLast = [volume |-> INITIAL_GLACIER_VOLUME * Scale,
                                                          meltRate |-> (waterFlow * Scale * 10) \div 8,
                                                          waterFlow |-> waterFlow * Scale]])

\* setInitialWaterLevel(level): combineLatest emits and the scan runs
setInitialWaterLevelCall ==
  \E g \in Contexts : Timer(setInitialWaterLevel(g, INITIAL_DAM_WATER_LEVEL * Scale))

Restarted(g) ==
  [g EXCEPT !.gr.damLast = None,
            !.gr.purLast = None,
            !.gr.powLast = None,
            !.gr.irrLast = None,
            !.gr.wwLast = None,
            !.gr.userAcc = 0,
            !.gr.userLast = None,
            !.gr.distAcc = 0,
            !.gr.distLast = None]

\* the accumulators of the scans
Accumulators(gr) ==
  [dam |-> gr.damLast, purification |-> gr.purLast, power |-> gr.powLast,
   irrigation |-> gr.irrLast, wastewater |-> gr.wwLast,
   distribution |-> gr.distAcc, consumption |-> gr.userAcc]

\* C25: resetSystem fully rebuilds the graph: the accumulators it leaves are
\* those a run of it on restarted streams leaves, the dam level derived from
\* INITIAL_DAM_WATER_LEVEL and the running totals counted from zero
C25_ResetRebuildsGraph ==
  [][resetSystem =>
       \E waterInput \in WaterInputs, g \in Contexts :
         Accumulators(graph') =
           Accumulators(resetSystemRun(Restarted(g), waterInput).gr)]_vars


(***************************************************************************)
(* The flood risk                                                          *)
(***************************************************************************)
\* levels dam$ has emitted last, in hundredths of a percent, on both sides
\* of the thresholds 80 and 90
FloodLevels == {0, 8000, 8001, 9000, 9001, 10000}

\* useFloodPrediction with the latest level and weather drawn
FloodInit ==
  /\ AlertInit /\ LifeInit /\ CacheInit
  /\ \E level \in FloodLevels, weather \in Weathers :
       OrchInitFrom(InitialState,
                    [InitialGraph EXCEPT !.damLast = level, !.weatherSrc = weather])

\* the sums of one weather term (0, 20, 40) and one level term (0, 30, 50)
FloodRisks == {0, 20, 30, 40, 50, 70, 90}

\* C26: for every dam level L and weather w the flood risk emitted is
\* min(100, (20 if rainy) + (40 if stormy) + (30 if L > 80) + (20 if L > 90));
\* it is one of a fixed finite set of values and exceeds 80 only when w is
\* stormy and L > 90
C26_FloodRisk ==
  [][FloodTick =>
       LET L == graph.damLast
           w == graph.weatherSrc
           risk == graph'.floodLast
           sum == (IF w = "pluvieux" THEN 20 * Scale ELSE 0)
                  + (IF w = "orageux" THEN 40 * Scale ELSE 0)
                  + (IF L > 80 * Scale THEN 30 * Scale ELSE 0)
                  + (IF L > 90 * Scale THEN 20 * Scale ELSE 0)
       IN /\ risk = Min(100 * Scale, sum)
          /\ risk \in {r * Scale : r \in FloodRisks}
          /\ risk > 80 * Scale => (w = "orageux" /\ L > 90 * Scale)]_vars

\* the flood risk of a storm over a dam above 90 has been emitted, copied
\* into the state and reported
C26_Witness ==
  /\ lastCall.op = "timer"
  /\ graph.weatherSrc = "orageux" /\ graph.damLast = 9001
  /\ graph.floodLast = 90 * Scale
  /\ state.floodRisk = 90 * Scale
  /\ HasAlert("Alerte : Risque eleve d'inondation!", "high")


(***************************************************************************)
(* The distribution                                                        *)
(***************************************************************************)
\* levels (percent) on both sides of the thresholds 30 and 70
DistLevels == {30, 31, 70, 71}
\* running sums the scan of waterDistribution$ has reached, below, at and
\* above DAILY_RESET_VALUE
DistSums == {0, 950, 1000, 2000}

\* useWaterDistribution after its scan has reached a drawn sum
DistInit ==
  /\ AlertInit /\ LifeInit /\ CacheInit
  /\ \E sum \in DistSums :
       LET out == IF sum = 0 THEN None ELSE Max(0, (sum - DAILY_RESET_VALUE) * Scale)
       IN OrchInitFrom(IF out = None THEN InitialState
                       ELSE [InitialState EXCEPT !.waterDistributed = out],
                       [InitialGraph EXCEPT !.distAcc = sum * Scale, !.distLast = out])

\* dam$ emits one of the levels
damEmits ==
  /\ graph.damEnd = "none"
  /\ \E level \in DistLevels, g \in Contexts : Timer(DamEmit(g, level * Scale))

\* C27: at every emission of dam$ the distribution stream emits
\* max(0, S - 1000), S being the running sum of level x 0.8 (level > 70),
\* level x 0.5 (30 < level <= 70) or level x 0.2 (level <= 30); the emitted
\* value is never negative and never below the one emitted before
C27_Distribution ==
  [][damEmits =>
       LET level == graph'.damLast
           share == IF level > 70 * Scale THEN (level * 8) \div 10
                    ELSE IF level > 30 * Scale /\ level <= 70 * Scale THEN (level * 5) \div 10
                    ELSE (level * 2) \div 10
           S == graph.distAcc + share
       IN /\ graph'.distAcc = S
          /\ graph'.distLast = Max(0, S - 1000 * Scale)
          /\ graph'.distLast >= 0
          /\ graph.distLast # None => graph'.distLast >= graph.distLast]_vars

\* the running sum has passed DAILY_RESET_VALUE in two emissions and the
\* stream has emitted what exceeds it
C27_Witness ==
  /\ lastCall.op = "timer" /\ tasks = 2
  /\ graph.distAcc = (950 + 6 + 56) * Scale + 80
  /\ graph.distLast = 12 * Scale + 80
  /\ state.waterDistributed = graph.distLast


(***************************************************************************)
(* The alert rules                                                         *)
(***************************************************************************)
\* the list of addAlert calls holds one with this message and priority
Made(calls, message, priority) ==
  \E k \in 1..Len(calls) : calls[k] = [message |-> message, priority |-> priority]

\* C28: on an emission of dam$ every threshold predicate of the dam rules
\* that holds makes its own addAlert call: >= 90 the critical level (high),
\* >= 80 the high level (medium), <= 20 the very low level (high), <= 30 the
\* low level (medium); so 95 gives two calls and 15 gives two calls
C28_AllDamRulesFire ==
  [][damFeed =>
       \A g \in Contexts :
         LET level == graph'.damLast
             calls == DamRule(g, level).al
         IN /\ level >= 90 * Scale =>
                 Made(calls, "Alerte : Niveau du barrage critique! (90%+)", "high")
            /\ level >= 80 * Scale =>
                 Made(calls, "Avertissement : Niveau du barrage eleve (80%+)", "medium")
            /\ level <= 20 * Scale =>
                 Made(calls, "Alerte : Niveau du barrage tres bas! (20% ou moins)", "high")
            /\ level <= 30 * Scale =>
                 Made(calls, "Avertissement : Niveau du barrage bas (30% ou moins)", "medium")]_vars


\* how far the running totals have come when the rules are observed
Profiles == {"fresh", "mid", "high"}
ProfileValue(profile, fresh, mid, high) ==
  CASE profile = "fresh" -> fresh [] profile = "mid" -> mid [] OTHER -> high

\* the streams after a run that brought their totals to a drawn profile,
\* and the state fields their subscriptions have copied
RulesGraph(profile, weather) ==
  LET distAcc == ProfileValue(profile, 0, 1000 * Scale, 2000 * Scale)
      userAcc == ProfileValue(profile, 0, 1400 * Scale, 1490 * Scale)
  IN [InitialGraph EXCEPT
        !.weatherSrc = weather,
        !.damLast = ProfileValue(profile, 50 * Scale, 85 * Scale, 95 * Scale),
        !.purLast = 100 * Scale,
        !.wwLast = ProfileValue(profile, 100 * Scale, 25 * Scale, 25 * Scale),
        !.powLast = ProfileValue(profile, None, 100 * Scale, 950 * Scale),
        !.irrLast = ProfileValue(profile, None, 100 * Scale, 990 * Scale),
        !.userSrc = 50 * Scale,
        !.userAcc = userAcc,
        !.userLast = IF userAcc = 0 THEN None ELSE Max(0, userAcc - DAILY_RESET_VALUE * Scale),
        !.distAcc = distAcc,
        !.distLast = IF distAcc = 0 THEN None ELSE Max(0, distAcc - DAILY_RESET_VALUE * Scale)]

RulesState(gr) ==
  LET Put(st, field, value) == IF value = None THEN st ELSE [st EXCEPT ![field] = value]
  IN Put(Put(Put(Put(Put(Put(Put([InitialState EXCEPT !.weatherCondition = gr.weatherSrc],
       "waterLevel", gr.damLast), "purifiedWater", gr.purLast), "treatedWastewater", gr.wwLast),
       "powerGenerated", gr.powLast), "irrigationWater", gr.irrLast),
       "userConsumption", gr.userLast), "waterDistributed", gr.distLast)

RulesInit ==
  /\ AlertInit /\ LifeInit /\ CacheInit
  /\ \E profile \in Profiles, weather \in {"ensoleille", "orageux"} :
       LET gr == RulesGraph(profile, weather)
       IN OrchInitFrom([RulesState(gr) EXCEPT
                          !.damWaterVolume = gr.damLast * (INITIAL_DAM_WATER_VOLUME \div 100)],
                       gr)

\* the messages of the addAlert calls made for one stream
QualityMessages == {"Alerte : Qualite de l'eau en dessous des normes!"}
FloodMessages == {"Alerte : Risque eleve d'inondation!"}
DistributionMessages ==
  {"Alerte : Distribution d'eau faible", "Information : Distribution d'eau elevee",
   "Distribution d'eau faible", "Distribution d'eau elevee"}
IrrigationMessages == {"Alerte : Consommation d'eau pour l'irrigation elevee"}
PowerMessages ==
  {"Alerte : Production d'energie faible",
   "Information : Production d'energie exceptionnellement elevee"}
UserMessages == {"Alerte : Consommation d'eau des utilisateurs elevee"}

\* the calls of addAlert, among `calls`, made with one of the messages
CallsWith(calls, messages) == {k \in 1..Len(calls) : calls[k].message \in messages}

\* an emission made exactly one call, of this priority, with one of the
\* messages
OneCall(calls, messages, priority) ==
  /\ Cardinality(CallsWith(calls, messages)) = 1
  /\ \A k \in CallsWith(calls, messages) : calls[k].priority = priority

NoCall(calls, messages) == CallsWith(calls, messages) = {}

\* C29: an emission that meets a threshold makes exactly one addAlert call,
\* with the priority of its rule, and one that meets none makes no call:
\* quality < 60 high; flood risk > 80 high; distribution < 50 medium and
\* > 500 low; irrigation > 1000 medium; power < 100 medium and > 1000 low;
\* consumption > 500 medium
C29_OneAlertPerEmission ==
  [][\A g \in Contexts :
       /\ QualityTick =>
            LET calls == WaterQualityControl(g).al
                quality == graph'.qualLast
            IN IF Less(quality, 60 * Scale) THEN OneCall(calls, QualityMessages, "high")
               ELSE NoCall(calls, QualityMessages)
       /\ FloodTick =>
            LET calls == FloodPrediction(g).al
                risk == graph'.floodLast
            IN IF risk > 80 * Scale THEN OneCall(calls, FloodMessages, "high")
               ELSE NoCall(calls, FloodMessages)
       /\ (IrrigationTick /\ graph'.irrLast # graph.irrLast) =>
            LET calls == Irrigation(g).al
                water == graph'.irrLast
            IN IF water > 1000 * Scale THEN OneCall(calls, IrrigationMessages, "medium")
               ELSE NoCall(calls, IrrigationMessages)
       /\ UserTick =>
            LET calls == UserWaterManagement(g).al
                consumption == graph'.userLast
            IN IF consumption > 500 * Scale THEN OneCall(calls, UserMessages, "medium")
               ELSE NoCall(calls, UserMessages)
       /\ damEmits =>
            LET calls == DamEmit(g, graph'.damLast).al
                power == graph'.powLast
                water == graph'.distLast
            IN /\ IF power = graph.powLast THEN NoCall(calls, PowerMessages)
                  ELSE IF power < 100 * Scale THEN OneCall(calls, PowerMessages, "medium")
                  ELSE IF power > 1000 * Scale THEN OneCall(calls, PowerMessages, "low")
                  ELSE NoCall(calls, PowerMessages)
               /\ IF water < 50 * Scale THEN OneCall(calls, DistributionMessages, "medium")
                  ELSE IF water > 500 * Scale THEN OneCall(calls, DistributionMessages, "low")
                  ELSE NoCall(calls, DistributionMessages)]_vars


(***************************************************************************)
(* The state fields and the streams                                        *)
(***************************************************************************)
\* a subscription of the orchestrator to the shared streams is live: the
\* one made at construction or one made by resetSystem
Subscribed == ~destroyed \/ resetSubs > 0

\* C30: once an emission of the purification, power, irrigation, wastewater,
\* quality, flood, consumption or distribution stream has been processed,
\* the state field of the stream equals the value just emitted, for the
\* subscriptions made at construction and for those made by resetSystem;
\* an emission equal to the previous one leaves the field as it was
C30_StateFollowsStreams ==
  [][Subscribed' =>
       /\ graph'.purLast # graph.purLast => state'.purifiedWater = graph'.purLast
       /\ graph'.powLast # graph.powLast => state'.powerGenerated = graph'.powLast
       /\ graph'.irrLast # graph.irrLast => state'.irrigationWater = graph'.irrLast
       /\ graph'.wwLast # graph.wwLast => state'.treatedWastewater = graph'.wwLast
       /\ graph'.distAcc # graph.distAcc => state'.waterDistributed = graph'.distLast
       /\ QualityTick => /\ state'.waterQuality = graph'.qualLast
                         /\ graph'.qualLast = graph.qualLast
                              => state'.waterQuality = state.waterQuality
       /\ FloodTick => /\ state'.floodRisk = graph'.floodLast
                       /\ graph'.floodLast = graph.floodLast
                            => state'.floodRisk = state.floodRisk
       /\ UserTick => /\ state'.userConsumption = graph'.userLast
                      /\ graph'.userLast = graph.userLast
                           => state'.userConsumption = state.userConsumption]_vars


(***************************************************************************)
(* retryWhen(retryStrategy(options)): the notifier maps the i-th error     *)
(* (index i - 1 of mergeMap) to timer(scalingDuration * i), whose emission *)
(* makes retryWhen subscribe to the source again, or to throwError, which  *)
(* ends the stream with that error                                         *)
(***************************************************************************)
\* retryStrategy giving up at the attempt maxRetryAttempts already
retryStrategy_Inclusive(r) ==
  LET retryAttempt == r.errors + 1
      s == [r EXCEPT !.errors = retryAttempt]
  IN IF retryAttempt >= r.maxRetryAttempts
        \/ (r.errorStatus # None /\ r.errorStatus # 0 /\ r.errorStatus \in r.excludedStatusCodes)
     THEN [s EXCEPT !.status = "error", !.thrown = retryAttempt]
     ELSE [s EXCEPT !.status = "waiting",
                    !.due = r.clock + r.scalingDuration * retryAttempt,
                    !.delays = Append(@, r.scalingDuration * retryAttempt)]

\* retryStrategy: the mergeMap callback for the next error of the source
\* (excludedStatusCodes.find returns the code found: a code 0 is not truthy)
retryStrategy(r) ==
  LET retryAttempt == r.errors + 1
      s == [r EXCEPT !.errors = retryAttempt]
  IN IF retryAttempt > r.maxRetryAttempts
        \/ (r.errorStatus # None /\ r.errorStatus # 0 /\ r.errorStatus \in r.excludedStatusCodes)
     THEN [s EXCEPT !.status = "error", !.thrown = retryAttempt]
     ELSE [s EXCEPT !.status = "waiting",
                    !.due = r.clock + r.scalingDuration * retryAttempt,
                    !.delays = Append(@, r.scalingDuration * retryAttempt)]

\* retryWhen subscribes to the source: callCount++, then the source errors
\* or emits its value and completes
SubscribeToSource(r) ==
  LET s == [r EXCEPT !.subscriptions = @ + 1, !.due = None]
  IN IF s.subscriptions <= r.failures
     THEN retryStrategy(s)
     ELSE [s EXCEPT !.delivered = @ + 1, !.status = "complete"]

RetryFrame == UNCHANGED <<alertVars, orchVars, cacheVars, unmounted, cleanupInterval>>

\* the subscriber subscribes
retrySubscribe ==
  /\ retry.status = "idle"
  /\ retry' = SubscribeToSource(retry)
  /\ RetryFrame

\* the pending timer(...) fires
retryTimer ==
  /\ retry.status = "waiting"
  /\ retry' = SubscribeToSource([retry EXCEPT !.clock = retry.due])
  /\ RetryFrame

\* sources that fail their first subscriptions, options of retryStrategy and
\* status codes of the errors
RetryFailures == 0..5
RetryAttempts == 1..4
ScalingDurations == {500, 1000}
StatusCodes == {None, 0, 503}
ExcludedStatusCodes == {{}, {0, 503}}

RetryInit ==
  /\ AlertInit /\ OrchInit /\ CacheInit /\ HooksInit
  /\ \E failures \in RetryFailures, status \in StatusCodes,
        maxRetryAttempts \in RetryAttempts, scalingDuration \in ScalingDurations,
        excludedStatusCodes \in ExcludedStatusCodes :
       retry = RetryOf(failures, status, maxRetryAttempts, scalingDuration,
                       excludedStatusCodes)

\* C31: a source that fails on its first two subscriptions and succeeds on
\* the third is subscribed exactly 3 times under the defaults, its value is
\* delivered and no error reaches the subscriber; in general the i-th error
\* is followed by a new subscription after scalingDuration x i for
\* i <= maxRetryAttempts, error number maxRetryAttempts + 1 is propagated
\* unchanged, and so the subscriptions are bounded by maxRetryAttempts + 1
C31_RetryBounded ==
  LET r == retry
      retried == IF r.errors <= r.maxRetryAttempts THEN r.errors ELSE r.maxRetryAttempts
      excluded == r.errorStatus \in r.excludedStatusCodes \ {0}
  IN (r.status # "idle" /\ ~excluded) =>
       /\ r.subscriptions <= r.maxRetryAttempts + 1
       /\ r.delays = [i \in 1..retried |-> r.scalingDuration * i]
       /\ r.status = "waiting" => r.due = r.clock + r.scalingDuration * r.errors
       /\ r.status = "error" =>
            /\ r.errors = r.maxRetryAttempts + 1
            /\ r.thrown = r.errors
            /\ r.delivered = 0
       /\ r.status = "complete" =>
            /\ r.subscriptions = r.failures + 1
            /\ r.delivered = 1 /\ r.thrown = None
       /\ (r.failures <= r.maxRetryAttempts) => r.status # "error"
       /\ (r.failures = 2 /\ r.maxRetryAttempts = 3 /\ r.status \notin {"waiting"}) =>
            r.subscriptions = 3 /\ r.delivered = 1 /\ r.thrown = None

\* the source of the test has been retried twice under the defaults, after
\* 1000 and 2000 ms, and its value was delivered at the third subscription
C31_Witness ==
  /\ retry.failures = 2 /\ retry.maxRetryAttempts = 3 /\ retry.scalingDuration = 1000
  /\ retry.status = "complete" /\ retry.subscriptions = 3
  /\ retry.delays = <<1000, 2000>> /\ retry.clock = 3000


(***************************************************************************)
(* The modes and the simulator's timer                                     *)
(***************************************************************************)
\* C32: the mode flags never disagree: after any calls of toggleManualMode,
\* toggleAutoMode, simulationControls.toggleAutoMode and resetSystem,
\* isManualMode is true exactly when the simulator's isAutoMode is false and
\* exactly when state.isAutoMode is false
C32_ModesAgree ==
  /\ isManualMode <=> ~isAutoMode
  /\ isManualMode <=> ~state.isAutoMode


\* C33: at most one interval timer of the simulator is set at any time,
\* the handle simulationInterval holding it: startSimulation while a timer
\* runs creates no second one, and stopSimulation leaves none running
C33_OneSimulationTimer ==
  /\ simulationTimers \in {0, 1}
  /\ simulationInterval <=> simulationTimers = 1
  /\ lastCall.op = "simulationControls.startSimulation" => simulationTimers = 1
  /\ lastCall.op = "simulationControls.stopSimulation" => simulationTimers = 0

\* startSimulation was called while the timer resetSystem had started was
\* running
C33_Witness ==
  /\ tasks = 2 /\ resetSubs = 1
  /\ lastCall.op = "simulationControls.startSimulation"
  /\ simulationTimers = 1


(***************************************************************************)
(* The index and the queue                                                 *)
(***************************************************************************)
\* the keys of the entries the queue holds
QueueKeys == {AlertKey(alertQueue[k]) : k \in 1..Len(alertQueue)}

\* C34: the index and the queue describe the same alerts: a key is in
\* alertMap exactly when an entry with that key is in the queue, the index
\* gives that very entry, the key of an evicted entry leaves the index, and
\* an add of a key the index does not hold creates an entry with count 1
C34_IndexMatchesQueue ==
  /\ [](/\ DOMAIN alertMap = QueueKeys
        /\ \A k \in 1..Len(alertQueue) : alertMap[AlertKey(alertQueue[k])] = alertQueue[k])
  /\ [][\A m \in Messages, p \in Priorities :
          addAlert(m, p) =>
            LET r == addAlertAt(alertMap, alertQueue, now, m, p)
            IN /\ r.removed # NoAlert => AlertKey(r.removed) \notin DOMAIN alertMap'
               /\ AlertKey(r.grouped) \notin DOMAIN alertMap => r.grouped.count = 1]_vars

\* an entry was evicted, and its key was then added again as a fresh entry
C34_Witness ==
  /\ lastAdd.again
  /\ lastAdd.evicted # ""
  /\ DOMAIN alertMap = QueueKeys


(***************************************************************************)
(* The range of systemEfficiency                                           *)
(***************************************************************************)
\* C35: systemEfficiency is within 0..100 whenever it is read, for any
\* interleaving of state updates and reads of the cached aggregates, also
\* when totalWaterProcessed is answered from the cache after purifiedWater
\* has changed
C35_EfficiencyRange ==
  lastRead.name = "systemEfficiency" =>
    /\ lastRead.value >= 0
    /\ lastRead.value <= 100 * Scale


(***************************************************************************)
(* The water quality                                                       *)
(***************************************************************************)
\* C36: whenever waterQualityControl$ computes purified / (purified +
\* treated), the purified total is strictly positive and the sum is above
\* zero, so the quality emitted and written to state is a number within
\* 0..100, never NaN
C36_QualityDefined ==
  /\ [][QualityTick =>
          /\ graph.purLast > 0
          /\ graph.wwLast >= 0
          /\ graph.purLast + graph.wwLast > 0
          /\ graph'.qualLast # NaN
          /\ graph'.qualLast >= 0 /\ graph'.qualLast <= 100 * Scale]_vars
  /\ [](/\ state.waterQuality # NaN
        /\ state.waterQuality >= 0 /\ state.waterQuality <= 100 * Scale)

\* the quality has been computed from a purified total and no treated
\* water, and written to state
C36_Witness ==
  /\ lastCall.op = "timer"
  /\ graph.purLast > 0 /\ graph.wwLast = 0
  /\ graph.qualLast = 100 * Scale
  /\ state.waterQuality = 100 * Scale


(***************************************************************************)
(* The subscriptions resetSystem makes                                     *)
(***************************************************************************)
\* C37: however many times resetSystem has been called, one set of
\* state-writing subscriptions is live, and the emission a purification
\* release or a glacier tick causes is applied to its state field once:
\* purifiedWater or powerGenerated grows by the emitted value, not by a
\* multiple of it
C37_AppliedOnce ==
  /\ [](resetSubs <= 1)
  /\ [][resetSubs >= 1 =>
          /\ PurificationTick
               => state'.purifiedWater = state.purifiedWater + graph'.purLast
          /\ (GlacierTick /\ graph'.powLast # graph.powLast)
               => state'.powerGenerated = state.powerGenerated + graph'.powLast]_vars

(***************************************************************************)
(* The glacier channel between two resets                                  *)
(***************************************************************************)
\* C38: between two resets, whatever the interleaving of glacier ticks and
\* simulator ticks, state.glacierVolume never increases, and a glacier tick
\* takes as its input the volume the previous glacier tick produced
C38_GlacierNeverGrows ==
  [][lastCall'.op # "resetSystem" =>
       /\ state'.glacierVolume <= state.glacierVolume
       /\ (GlacierTick /\ graph.glacierOut # None) => graph.glacierSrc = graph.glacierOut]_vars


(***************************************************************************)
(* The level the interface shows                                           *)
(***************************************************************************)
\* computed currentWaterLevel: the manual level in manual mode, the level
\* of the state otherwise
currentWaterLevel == IF isManualMode THEN manualWaterLevel ELSE state.waterLevel

\* C39: currentWaterLevel always equals state.waterLevel, in automatic and
\* in manual mode, after any sequence of toggleManualMode, setWaterLevel,
\* stream updates and resetSystem
C39_CurrentLevelIsStateLevel == currentWaterLevel = state.waterLevel


\* the period of the interval(1000) timers, milliseconds
TickPeriod == 1000
\* the tick a time belongs to
TickOf(t) == t \div TickPeriod

\* C21: when floodPrediction$ writes a flood risk to state in a tick, the dam
\* level it was computed from was published by dam$ in that same tick.
C21_NoStaleRead ==
  [][(FloodTick /\ state'.floodRisk # state.floodRisk)
       => TickOf(graph.damAt) = TickOf(now)]_vars

\* a read that getCachedOrCalculate answers from the cache does so with an
\* entry younger than maxAge
FreshHit(name) ==
  (computedRefs[name].dirty /\ ~lastRead'.calculated)
    => /\ calculationCache[name] # NoEntry
       /\ now - calculationCache[name].timestamp < CacheMaxAge
       /\ lastRead'.value = calculationCache[name].value

\* C17: a read of totalWaterProcessed or of systemEfficiency made at least
\* CacheMaxAge (1 second) after the last change of purifiedWater or
\* waterDistributed returns the value computed from the current state, and
\* getCachedOrCalculate never returns an entry whose age is maxAge or more.
C17_StaleAtMostMaxAge ==
  [][ /\ (readTotalWaterProcessed /\ now - changedAt >= CacheMaxAge)
           => lastRead'.value = totalWaterProcessedFn(state)
      /\ (readSystemEfficiency /\ now - changedAt >= CacheMaxAge)
           => lastRead'.value = systemEfficiencyFn(state, totalWaterProcessedFn(state))
      /\ readTotalWaterProcessed => FreshHit("totalWaterProcessed")
      /\ readSystemEfficiency => FreshHit("systemEfficiency") ]_vars

(***************************************************************************)
(* The overall status                                                      *)
(***************************************************************************)
\* the exported pure function, on values in hundredths
calculateOverallSystemStatus(waterLevel, waterQuality) ==
  IF Less(waterLevel, CRITICAL_WATER_LEVEL * Scale)
       \/ Less(waterQuality, CRITICAL_WATER_QUALITY * Scale)
  THEN "Critique"
  ELSE IF LessOrEqual(waterLevel, LOW_WATER_LEVEL * Scale)
            \/ Less(waterQuality, MEDIUM_WATER_QUALITY * Scale)
  THEN "Preoccupant"
  ELSE "Normal"

\* the computed ref the orchestrator returns; it reads state alone, so its
\* value is always the one of the current state
overallSystemStatus ==
  IF Less(state.waterLevel, CRITICAL_WATER_LEVEL * Scale)
       \/ Less(state.waterQuality, CRITICAL_WATER_QUALITY * Scale)
  THEN "Critique"
  ELSE IF Less(state.waterLevel, LOW_WATER_LEVEL * Scale)
            \/ Less(state.waterQuality, MEDIUM_WATER_QUALITY * Scale)
  THEN "Preoccupant"
  ELSE "Normal"

\* the application reads overallSystemStatus.value
readOverallSystemStatus ==
  /\ lastRead' = [name |-> "overallSystemStatus", value |-> overallSystemStatus,
                  calculated |-> TRUE]
  /\ UNCHANGED <<alertVars, orchVars, lifeVars, calculationCache, computedRefs, changedAt>>

\* the inputs of the status: whole percentages, as the test of the pure
\* function enumerates them
StatusInputs == 0..100

StatusInit ==
  /\ AlertInit /\ LifeInit /\ CacheInit
  /\ \E waterLevel \in StatusInputs, waterQuality \in StatusInputs :
       OrchInitFrom([InitialState EXCEPT !.waterLevel = waterLevel * Scale,
                                         !.waterQuality = waterQuality * Scale],
                    InitialGraph)

SpecStatus == StatusInit /\ [][readOverallSystemStatus]_vars

\* C11: for every water level and water quality in 0..100 the status the
\* orchestrator exposes is Critique if level < CRITICAL_WATER_LEVEL or
\* quality < CRITICAL_WATER_QUALITY, otherwise Preoccupant if
\* level <= LOW_WATER_LEVEL or quality < MEDIUM_WATER_QUALITY, otherwise
\* Normal, and it agrees with calculateOverallSystemStatus
C11_OverallStatus ==
  lastRead.name = "overallSystemStatus" =>
    /\ lastRead.value =
         (IF state.waterLevel < CRITICAL_WATER_LEVEL * Scale
               \/ state.waterQuality < CRITICAL_WATER_QUALITY * Scale
          THEN "Critique"
          ELSE IF state.waterLevel <= LOW_WATER_LEVEL * Scale
                    \/ state.waterQuality < MEDIUM_WATER_QUALITY * Scale
          THEN "Preoccupant"
          ELSE "Normal")
    /\ lastRead.value = calculateOverallSystemStatus(state.waterLevel, state.waterQuality)

\* the alert queue driven by its callers alone
AlertNext == addAlertCall \/ Tick
SpecAlerts == Init /\ [][AlertNext]_vars

\* the water system: its timers and its control functions
Next ==
  \/ GlacierTick
  \/ PurificationTick
  \/ IrrigationTick
  \/ QualityTick
  \/ FloodTick
  \/ UserTick
  \/ WeatherTick
  \/ SimulationTick
  \/ setWaterLevelCall
  \/ toggleManualMode
  \/ toggleAutoMode
  \/ resetSystem
  \/ onUnmounted
Spec == Init /\ [][Next]_vars

\* the aggregates read while the purification and the distribution go on
CacheNext ==
  \/ damFeed
  \/ PurificationTick
  \/ cleanupTick
  \/ Tick
  \/ readTotalWaterProcessed
  \/ readSystemEfficiency
SpecCache == CacheSpecInit /\ [][CacheNext]_vars

\* the water system with a dam level that has moved away from its start
ToggleNext ==
  \/ toggleManualMode
  \/ SimulationTick
  \/ setWaterLevelCall
  \/ resetSystem

\* the simulator under toggleManualMode, setWaterLevel and resetSystem
SpecToggle == Init /\ [][ToggleNext]_vars

\* dam$ on drawn inputs
SpecDam == DamInit /\ [][setInitialWaterLevelCall]_vars

\* floodPrediction$ on a drawn level and weather
SpecFlood == FloodInit /\ [][FloodTick]_vars

\* waterDistribution$ under emissions of dam$
SpecDist == DistInit /\ [][damEmits]_vars

RulesNext ==
  \/ damEmits
  \/ QualityTick
  \/ FloodTick
  \/ IrrigationTick
  \/ UserTick

\* the monitored streams emitting around the thresholds of the rules
SpecRules == RulesInit /\ [][RulesNext]_vars

RetryNext ==
  \/ retrySubscribe
  \/ retryTimer

\* a failing source under retryWhen(retryStrategy(options))
SpecRetry == RetryInit /\ [][RetryNext]_vars

ModesNext ==
  \/ toggleManualMode
  \/ toggleAutoMode
  \/ simulationToggleAutoMode
  \/ startSimulationCall
  \/ stopSimulationCall
  \/ resetSystem
  \/ SimulationTick

\* the mode controls and the simulation controls
SpecModes == Init /\ [][ModesNext]_vars

TimersNext ==
  \/ resetSystem
  \/ GlacierTick
  \/ FloodTick
  \/ Tick

\* the timers of glacierMelt$ and floodPrediction$ as time passes
SpecTimers == Init /\ [][TimersNext]_vars

FaultNext ==
  \/ damFeed
  \/ damFault
  \/ PurificationTick
  \/ WeatherTick
  \/ toggleManualMode

\* dam$ under emissions and an error of its computation
SpecFault == Init /\ [][FaultNext]_vars

FeedNext ==
  \/ damFeed
  \/ PurificationTick
  \/ WeatherTick
  \/ toggleManualMode
  \/ resetSystem
SpecFeed == Init /\ [][FeedNext]_vars

====
